---- MODULE Spec2Model ----
(***************************************************************************)
(* A model of the stateful parts of qdashboard:                            *)
(*   - the git synchronisation of the platforms repository                 *)
(*     (qdashboard/qpu/platforms.py), one git command per step, so that    *)
(*     request threads interleave as the threaded Flask server allows;     *)
(*   - the SLURM submission workflow (experiments/job_submission.py and    *)
(*     the /repeat_experiment route);                                      *)
(*   - the external command call sites and their timeouts.                 *)
(***************************************************************************)
EXTENDS Integers, Sequences, FiniteSets, TLC

(***************************************************************************)
(* Bounds                                                                  *)
(***************************************************************************)
\* number of distinct uncommitted changes a user can make to the work tree
MaxChanges == 1
\* longest stash list explored
MaxStash == 2

\* request threads of the threaded server (cli.py: app.run(threaded=True))
Threads == {1, 2}

Changes == 1..MaxChanges

\* branches: "main" is checked out by the clone, "dev" exists on origin,
\* "ghost" exists nowhere
Branches == {"main", "dev", "ghost"}
OriginBranches == {"main", "dev"}

HandleChanges == {"fail", "stash", "commit"}

VARIABLES
  \* ---- the platforms repository (shared by all request threads)
  branch,          \* the checked-out branch
  localBranches,   \* git branch --list
  remoteBranches,  \* git branch -r (what the last fetch saw)
  tree,            \* uncommitted changes of the working tree (git status)
  conflicted,      \* the working tree holds conflict markers
  stash,           \* the stash list, stash@{0} first
  \* ---- one request thread each
  pc,              \* position of the thread in its function
  op,              \* the call the thread executes and its arguments
  loc,             \* local variables of switch_repository_branch
  result,          \* the dictionary the call builds and returns
  ran,             \* the state-changing git commands the call has run
  snap,            \* the repository as it was when the call started
  popExit,         \* exit status of the call's git stash pop/apply
  popped,          \* the stash entry the call's pop removed
  \* ---- a handler waiting for an external command (git, sbatch, qq)
  site,            \* the call site whose subprocess.run is executing
  elapsed,         \* seconds the child process has been running
  hung,            \* the child process never exits by itself
  outcome,         \* how the last subprocess.run ended
  \* ---- experiment submission: the clock and the files on disk
  now,             \* time.time(), in ticks
  expDirs,         \* the experiment directories under data_dir
  expMeta,         \* experiment_metadata.json of the directories that have one
  tempDirs,        \* the qq_<timestamp> directories under ~/.qdashboard/temp
  outDirs,         \* the qq_<timestamp> output directories next to the reports
  jobInfo,         \* the temporary directories that hold a job_info.json
  lastReport,      \* content of the last_report_path file
  calls,           \* the submissions made so far, oldest first
  last,            \* what the latest submission did
  given,           \* which runcard arguments the latest submission was given
  listing,         \* what the latest list_user_experiments call returned
  \* ---- the platforms directory: ensure_platforms_directory
  environ,         \* os.environ['QIBOLAB_PLATFORMS'], "" when not set
  disk,            \* what is at each candidate path of the platforms directory
  ensured,         \* the latest ensure_platforms_directory call and its result
  settled,         \* the path the first successful call returned, "" before it
  \* ---- the file browser (PathView) over the served directory tree
  key,             \* PathView.key, the configured authentication key
  dirs,            \* the directories that exist under the served root
  files,           \* content of each file of the directory, "absent" if none
  response,        \* the latest request and what the handler answered
  partial,         \* the latest Range request and partial_response's answer
  \* ---- package versions: the qibo_versions cookie of one browser
  clock,           \* time.time(), in steps of ClockStep seconds
  qibo_versions,   \* the browser's qibo_versions cookie
  installed,       \* the versions importlib finds at the moment
  answer,          \* the latest get_qibo_versions call and its result
  \* ---- one platform directory: detect_and_save_qibolab_version
  versions_json,   \* the platform's versions.json
  calibration_json,\* whether the platform has a calibration.json
  detected,        \* the latest detect_and_save_qibolab_version call
  \* ---- the platforms repository as commit_changes and push_changes see it
  unsaved,         \* git status --porcelain prints something
  ahead,           \* commits of the current branch that origin does not have
  upstream,        \* origin/<current branch> exists in the clone
  vcs,             \* the latest commit_changes / push_changes call
  \* ---- the QPU pages: topology and connection status
  topology,        \* the latest infer_topology_from_connectivity call
  ips,             \* the platform's instruments and the latest
                   \* get_instruments_ip call
  script,          \* content of the file ping_electronics.sh
  conn             \* per request thread: its get_connection_status call

gitVars == <<branch, localBranches, remoteBranches, tree, conflicted, stash>>
thrVars == <<pc, op, loc, result, ran, snap, popExit, popped>>
cmdVars == <<site, elapsed, hung, outcome>>
subVars == <<now, expDirs, expMeta, tempDirs, outDirs, jobInfo, lastReport,
             calls, last, given, listing>>
platVars == <<environ, disk, ensured, settled>>
fbVars == <<key, dirs, files, response, partial>>
verVars == <<clock, qibo_versions, installed, answer,
             versions_json, calibration_json, detected>>
repoVars == <<unsaved, ahead, upstream, vcs>>
qpuVars == <<topology, ips, script, conn>>
vars == <<gitVars, thrVars, cmdVars, subVars, platVars, fbVars, verVars,
          repoVars, qpuVars>>

\* what the steps of one part leave alone
notGit == <<qpuVars, cmdVars, subVars, platVars, fbVars, verVars,
           repoVars>>
notCmd == <<qpuVars, gitVars, thrVars, subVars, platVars, fbVars, verVars,
           repoVars>>
notSub == <<qpuVars, gitVars, thrVars, cmdVars, platVars, fbVars, verVars,
           repoVars>>
notPlat == <<qpuVars, gitVars, thrVars, cmdVars, subVars, fbVars, verVars,
           repoVars>>
notFb == <<qpuVars, gitVars, thrVars, cmdVars, subVars, platVars, verVars,
           repoVars>>
notVer == <<qpuVars, gitVars, thrVars, cmdVars, subVars, platVars, fbVars, repoVars>>
notRepo == <<qpuVars, gitVars, thrVars, cmdVars, subVars, platVars, fbVars,
            verVars>>
notQpu == <<gitVars, thrVars, cmdVars, subVars, platVars, fbVars, verVars,
           repoVars>>

(***************************************************************************)
(* Values                                                                  *)
(***************************************************************************)
NoOp == [fn |-> "none", branch_name |-> "main", create_if_not_exists |-> FALSE,
         handle_changes |-> "fail", auto_apply_stash |-> TRUE, pop |-> TRUE]

NoLoc == [has_local_changes |-> FALSE, branch_exists_locally |-> FALSE,
          branch_exists_remotely |-> FALSE, checked_out |-> FALSE]

\* a dictionary: keys is the set of keys present, the other fields their values
NoResult == [bound |-> FALSE, keys |-> {}, success |-> FALSE,
             has_changes |-> FALSE, changes_handled |-> "None",
             stash_created |-> "None", stash_applied |-> "None",
             stash_restored |-> FALSE, stash_name |-> "None",
             conflicts |-> FALSE]

NoEntry == [msg |-> "none", content |-> {}]
NoSnap == [branch |-> "main", tree |-> {}, conflicted |-> FALSE, stash |-> <<>>]

\* git names the top of the stash list stash@{0}
StashTop == "stash@{0}"

Upd(f, t, v) == [f EXCEPT ![t] = v]

\* the call of thread t ends: its function returns the dictionary r
Return(t, r) ==
  /\ pc' = Upd(pc, t, "returned")
  /\ result' = Upd(result, t, r)

\* the call of thread t ends with an exception that reaches its caller
Raise(t) ==
  /\ pc' = Upd(pc, t, "raised")
  /\ UNCHANGED result

(***************************************************************************)
(* git: what the commands do to the repository                             *)
(***************************************************************************)
\* git status --porcelain prints something iff the work tree has changes
GitStatusDirty == tree # {} \/ conflicted

\* git stash push -u: the changes become the top stash entry, the tree is clean
\* (git refuses to stash a tree with unmerged conflicts)
GitStashPush(message, exit) ==
  /\ exit = 0 => ~conflicted /\ tree # {}
  /\ IF exit = 0
       THEN /\ stash' = <<[msg |-> message, content |-> tree]>> \o stash
            /\ tree' = {}
       ELSE UNCHANGED <<stash, tree>>
  /\ UNCHANGED <<branch, localBranches, remoteBranches, conflicted>>

\* git stash pop / git stash apply; exit is its exit status.  It exits 0 only
\* when there is an entry whose changes do not touch the changes of the tree,
\* and then the entry's changes are back in the tree (pop drops the entry).
\* Exiting non-zero it keeps the entry; marked says whether it left conflict
\* markers in the tree.
GitStashApply(drop, exit, marked) ==
  /\ exit = 0 => /\ stash # <<>>
                 /\ Head(stash).content \cap tree = {}
                 /\ ~conflicted
  /\ marked => exit # 0 /\ stash # <<>>
  /\ IF exit = 0
       THEN /\ tree' = tree \cup Head(stash).content
            /\ stash' = IF drop THEN Tail(stash) ELSE stash
            /\ UNCHANGED conflicted
       ELSE /\ conflicted' = (conflicted \/ marked)
            /\ UNCHANGED <<tree, stash>>
  /\ UNCHANGED <<branch, localBranches, remoteBranches>>

\* git checkout <name> (create = FALSE) and git checkout -b <name> [origin/<name>]
\* (create = TRUE).  It exits 0 only if the branch exists, respectively does
\* not exist yet; uncommitted changes travel with the work tree.
GitCheckout(name, create, exit) ==
  /\ exit = 0 => IF create THEN name \notin localBranches
                           ELSE name \in localBranches
  /\ IF exit = 0
       THEN /\ branch' = name
            /\ localBranches' = localBranches \cup {name}
       ELSE UNCHANGED <<branch, localBranches>>
  /\ UNCHANGED <<remoteBranches, tree, conflicted, stash>>

\* git fetch --all: on success the remote-tracking branches are origin's
GitFetch(exit) ==
  /\ remoteBranches' = IF exit = 0 THEN OriginBranches ELSE remoteBranches
  /\ UNCHANGED <<branch, localBranches, tree, conflicted, stash>>

ExitCodes == {0, 1}

(***************************************************************************)
(* The user, outside the dashboard                                         *)
(***************************************************************************)
\* a platform file is edited in the work tree
UserEdit ==
  /\ UNCHANGED notGit
  /\ \E c \in Changes \ tree : tree' = tree \cup {c}
  /\ UNCHANGED <<branch, localBranches, remoteBranches, conflicted, stash>>
  /\ UNCHANGED thrVars

\* the conflict markers a failed pop left are resolved by hand
UserResolve ==
  /\ UNCHANGED notGit
  /\ conflicted
  /\ conflicted' = FALSE
  /\ UNCHANGED <<branch, localBranches, remoteBranches, tree, stash>>
  /\ UNCHANGED thrVars

(***************************************************************************)
(* Calls                                                                   *)
(***************************************************************************)
Begin(t, o, first) ==
  /\ UNCHANGED notGit
  /\ pc[t] = "idle"
  /\ pc' = Upd(pc, t, first)
  /\ op' = Upd(op, t, o)
  /\ snap' = Upd(snap, t, [branch |-> branch, tree |-> tree,
                            conflicted |-> conflicted, stash |-> stash])
  /\ UNCHANGED <<loc, result, ran, popExit, popped>>
  /\ UNCHANGED gitVars

\* switch_repository_branch(platforms_path, branch_name, create_if_not_exists,
\*                          handle_changes, auto_apply_stash)
CallSwitch(t) ==
  \E b \in Branches, c \in BOOLEAN, h \in HandleChanges, a \in BOOLEAN :
    Begin(t, [fn |-> "switch", branch_name |-> b, create_if_not_exists |-> c,
              handle_changes |-> h, auto_apply_stash |-> a, pop |-> TRUE],
          "sw_fetch")

\* stash_changes(platforms_path, stash_message)
CallStash(t) ==
  Begin(t, [NoOp EXCEPT !.fn = "stash"], "st_status")

\* apply_latest_stash(platforms_path, pop)
CallApply(t) ==
  \E p \in BOOLEAN :
    Begin(t, [NoOp EXCEPT !.fn = "apply", !.pop = p], "ap_list")

\* the caller has the outcome; the thread serves the next request
Finish(t) ==
  /\ UNCHANGED notGit
  /\ pc[t] \in {"returned", "raised"}
  /\ pc' = Upd(pc, t, "idle")
  /\ op' = Upd(op, t, NoOp)
  /\ loc' = Upd(loc, t, NoLoc)
  /\ result' = Upd(result, t, NoResult)
  /\ ran' = Upd(ran, t, {})
  /\ snap' = Upd(snap, t, NoSnap)
  /\ popExit' = Upd(popExit, t, -1)
  /\ popped' = Upd(popped, t, NoEntry)
  /\ UNCHANGED gitVars

(***************************************************************************)
(* switch_repository_branch: its exception handlers                        *)
(***************************************************************************)
\* except subprocess.CalledProcessError / except Exception: both assign
\* result['error'] and return result.  When result is not bound yet the
\* assignment itself raises (UnboundLocalError), out of the function.
SwitchExcept(t) ==
  IF result[t].bound
    THEN Return(t, [result[t] EXCEPT !.keys = @ \cup {"error"}])
    ELSE Raise(t)

\* the first dictionary switch_repository_branch builds
SwitchResult(has_local_changes) ==
  [NoResult EXCEPT !.bound = TRUE,
                   !.keys = {"success", "has_changes", "changes_handled",
                             "stash_created", "stash_applied", "stash_restored"},
                   !.has_changes = has_local_changes]

(***************************************************************************)
(* stash_changes, one git command per step                                 *)
(***************************************************************************)
StashMessage(o) ==
  IF o.fn = "switch" THEN "Auto-stash before switching" ELSE "WIP: Stashed"

\* stash_changes returns {'success': False, 'error': ...}
StashFailed(t) ==
  IF op[t].fn = "switch"
    \* if not stash_result['success']: result['error'] = ...; return result
    THEN Return(t, [result[t] EXCEPT !.keys = @ \cup {"error"}])
    ELSE Return(t, [NoResult EXCEPT !.bound = TRUE,
                                    !.keys = {"success", "error"}])

\* variant of StashDone: switch_repository_branch does not record the stash
StashDone_NotRecorded(t, name) ==
  IF op[t].fn = "switch"
    THEN /\ UNCHANGED result
         /\ pc' = Upd(pc, t, "sw_check_local")
    ELSE Return(t, [NoResult EXCEPT !.bound = TRUE, !.success = TRUE,
                                    !.keys = {"success", "stash_name"},
                                    !.stash_name = name])

\* stash_changes returns {'success': True, 'stash_name': ...}
StashDone(t, name) ==
  IF op[t].fn = "switch"
    THEN /\ result' = Upd(result, t, [result[t] EXCEPT
                                        !.changes_handled = "stashed",
                                        !.stash_created = name])
         /\ pc' = Upd(pc, t, "sw_check_local")
    ELSE Return(t, [NoResult EXCEPT !.bound = TRUE, !.success = TRUE,
                                    !.keys = {"success", "stash_name"},
                                    !.stash_name = name])

\* git status --porcelain; 'No changes to stash' on a clean tree
St_Status(t) ==
  /\ UNCHANGED notGit
  /\ pc[t] = "st_status"
  /\ IF GitStatusDirty
       THEN pc' = Upd(pc, t, "st_push") /\ UNCHANGED result
       ELSE StashFailed(t)
  /\ UNCHANGED <<op, loc, ran, snap, popExit, popped>>
  /\ UNCHANGED gitVars

\* git stash push -u -m <message>, check=True
St_Push(t) ==
  /\ UNCHANGED notGit
  /\ pc[t] = "st_push"
  /\ Len(stash) < MaxStash
  /\ \E exit \in ExitCodes :
       /\ GitStashPush(StashMessage(op[t]), exit)
       /\ IF exit = 0
            THEN pc' = Upd(pc, t, "st_list") /\ UNCHANGED result
            ELSE StashFailed(t)
  /\ ran' = Upd(ran, t, ran[t] \cup {"stash"})
  /\ UNCHANGED <<op, loc, snap, popExit, popped>>

\* what git stash list --oneline -1 prints, in pieces: the abbreviated hash
\* of the stash commit, the full reflog selector and the reflog subject
\* (--oneline replaces the "%gd: %gs" format of git stash list); nothing
\* when the list is empty
StashListOneline ==
  IF stash = <<>>
    THEN <<>>
    ELSE <<"5fbad90", " ", "refs/stash@{0}", ":", " ", "On " \o branch, ":",
           " ", Head(stash).msg, "\n">>

\* stdout.split(':')[0].strip() if stdout else 'stash@{0}'
StashNameOf(stdout) ==
  LET RECURSIVE Before(_)
      Before(w) == IF w = <<>> \/ Head(w) = ":"
                     THEN <<>> ELSE <<Head(w)>> \o Before(Tail(w))
      RECURSIVE Strip(_)
      Strip(w) == IF w # <<>> /\ Head(w) \in {" ", "\n"} THEN Strip(Tail(w))
                  ELSE IF w # <<>> /\ w[Len(w)] \in {" ", "\n"}
                    THEN Strip(SubSeq(w, 1, Len(w) - 1))
                    ELSE w
      RECURSIVE Join(_)
      Join(w) == IF w = <<>> THEN "" ELSE Head(w) \o Join(Tail(w))
  IN IF stdout = <<>> THEN "stash@{0}" ELSE Join(Strip(Before(stdout)))

\* git stash list --oneline -1 and the name taken from its output
St_List(t) ==
  /\ UNCHANGED notGit
  /\ pc[t] = "st_list"
  /\ StashDone(t, StashNameOf(StashListOneline))
  /\ UNCHANGED <<op, loc, ran, snap, popExit, popped>>
  /\ UNCHANGED gitVars

(***************************************************************************)
(* apply_latest_stash, one git command per step                            *)
(***************************************************************************)
\* git stash list; 'No stashes available' when it prints nothing
Ap_List(t) ==
  /\ UNCHANGED notGit
  /\ pc[t] = "ap_list"
  /\ IF stash # <<>>
       THEN pc' = Upd(pc, t, "ap_pop") /\ UNCHANGED result
       ELSE IF op[t].fn = "switch"
              \* stash_result['success'] is False and stash_result has no
              \* key 'had_stashes': KeyError, caught by except Exception
              THEN SwitchExcept(t)
              ELSE Return(t, [NoResult EXCEPT !.bound = TRUE,
                                              !.keys = {"success", "error"}])
  /\ UNCHANGED <<op, loc, ran, snap, popExit, popped>>
  /\ UNCHANGED gitVars

\* variant of ApplyResult: the exit status of the pop is not looked at
ApplyResult_IgnoresExit(exit) ==
  [NoResult EXCEPT !.bound = TRUE, !.success = TRUE,
                   !.keys = {"success", "stash_applied", "conflicts"},
                   !.stash_applied = StashTop,
                   !.conflicts = FALSE]

\* what apply_latest_stash returns after running git stash pop/apply
ApplyResult(exit) ==
  [NoResult EXCEPT !.bound = TRUE, !.success = TRUE,
                   !.keys = {"success", "stash_applied", "conflicts"}
                            \cup (IF exit # 0 THEN {"error"} ELSE {}),
                   !.stash_applied = StashTop,
                   !.conflicts = (exit # 0)]

\* git stash pop (or apply), no check=True: conflicts = returncode != 0
Ap_Pop(t) ==
  /\ UNCHANGED notGit
  /\ pc[t] = "ap_pop"
  /\ \E exit \in ExitCodes, marked \in BOOLEAN :
       /\ GitStashApply(op[t].pop, exit, marked)
       /\ popExit' = Upd(popExit, t, exit)
       /\ popped' = Upd(popped, t, IF exit = 0 /\ op[t].pop
                                     THEN Head(stash) ELSE NoEntry)
       /\ IF op[t].fn = "switch"
            \* if stash_result['success']: stash_applied, stash_restored
            THEN Return(t, [result[t] EXCEPT
                              !.stash_applied = ApplyResult(exit).stash_applied,
                              !.stash_restored = TRUE])
            ELSE Return(t, ApplyResult(exit))
  /\ ran' = Upd(ran, t, ran[t] \cup {"pop"})
  /\ UNCHANGED <<op, loc, snap>>

(***************************************************************************)
(* switch_repository_branch, one git command per step                      *)
(***************************************************************************)
\* git fetch --all, check=True, before result is bound
Sw_Fetch(t) ==
  /\ UNCHANGED notGit
  /\ pc[t] = "sw_fetch"
  /\ \E exit \in ExitCodes :
       /\ GitFetch(exit)
       /\ IF exit = 0
            THEN pc' = Upd(pc, t, "sw_status") /\ UNCHANGED result
            ELSE SwitchExcept(t)
  /\ UNCHANGED <<op, loc, ran, snap, popExit, popped>>

\* variant of Sw_Status: only handle_changes = 'fail' stops the switch
Sw_Status_OnlyFailStops(t) ==
  /\ UNCHANGED notGit
  /\ pc[t] = "sw_status"
  /\ LET has_local_changes == GitStatusDirty
         r == SwitchResult(has_local_changes)
     IN  /\ loc' = Upd(loc, t, [loc[t] EXCEPT
                                  !.has_local_changes = has_local_changes])
         /\ IF has_local_changes /\ op[t].handle_changes = "fail"
              THEN Return(t, [r EXCEPT !.keys = @ \cup {"error"}])
              ELSE /\ result' = Upd(result, t, r)
                   /\ pc' = Upd(pc, t,
                          IF has_local_changes /\ op[t].handle_changes = "stash"
                            THEN "st_status" ELSE "sw_check_local")
  /\ UNCHANGED <<op, ran, snap, popExit, popped>>
  /\ UNCHANGED gitVars

\* git status --porcelain, then result = {...} and the handle_changes cases
Sw_Status(t) ==
  /\ UNCHANGED notGit
  /\ pc[t] = "sw_status"
  /\ LET has_local_changes == GitStatusDirty
         r == SwitchResult(has_local_changes)
     IN  /\ loc' = Upd(loc, t, [loc[t] EXCEPT
                                  !.has_local_changes = has_local_changes])
         /\ IF has_local_changes /\ op[t].handle_changes \in {"fail", "commit"}
              THEN Return(t, [r EXCEPT !.keys = @ \cup {"error"}])
              ELSE /\ result' = Upd(result, t, r)
                   /\ pc' = Upd(pc, t,
                          IF has_local_changes /\ op[t].handle_changes = "stash"
                            THEN "st_status" ELSE "sw_check_local")
  /\ UNCHANGED <<op, ran, snap, popExit, popped>>
  /\ UNCHANGED gitVars

\* git branch --list <branch_name>
Sw_CheckLocal(t) ==
  /\ UNCHANGED notGit
  /\ pc[t] = "sw_check_local"
  /\ loc' = Upd(loc, t, [loc[t] EXCEPT !.branch_exists_locally =
                                         (op[t].branch_name \in localBranches)])
  /\ pc' = Upd(pc, t, "sw_check_remote")
  /\ UNCHANGED <<op, result, ran, snap, popExit, popped>>
  /\ UNCHANGED gitVars

\* git branch -r --list origin/<branch_name>; not found anywhere and
\* create_if_not_exists false: result['error'], return result
Sw_CheckRemote(t) ==
  /\ UNCHANGED notGit
  /\ pc[t] = "sw_check_remote"
  /\ LET remotely == op[t].branch_name \in remoteBranches
     IN  /\ loc' = Upd(loc, t, [loc[t] EXCEPT !.branch_exists_remotely = remotely])
         /\ IF loc[t].branch_exists_locally \/ remotely
               \/ op[t].create_if_not_exists
              THEN pc' = Upd(pc, t, "sw_checkout") /\ UNCHANGED result
              ELSE Return(t, [result[t] EXCEPT !.keys = @ \cup {"error"}])
  /\ UNCHANGED <<op, ran, snap, popExit, popped>>
  /\ UNCHANGED gitVars

\* variant of SwitchSucceeded: the stash is never applied after the switch
SwitchSucceeded_NoApply(t) ==
  Return(t, [result[t] EXCEPT !.success = TRUE])

\* result['success'] = True, then the auto_apply_stash case
SwitchSucceeded(t) ==
  LET r == [result[t] EXCEPT !.success = TRUE]
  IN  IF op[t].auto_apply_stash
        THEN result' = Upd(result, t, r) /\ pc' = Upd(pc, t, "ap_list")
        ELSE Return(t, r)

\* variant of Sw_Checkout: success is reported without running git checkout
Sw_Checkout_NotRun(t) ==
  /\ UNCHANGED notGit
  /\ pc[t] = "sw_checkout"
  /\ loc' = Upd(loc, t, [loc[t] EXCEPT !.checked_out = TRUE])
  /\ IF loc[t].branch_exists_locally \/ loc[t].branch_exists_remotely
       THEN pc' = Upd(pc, t, "sw_pull") /\ UNCHANGED result
       ELSE SwitchSucceeded(t)
  /\ UNCHANGED <<op, ran, snap, popExit, popped>>
  /\ UNCHANGED gitVars

\* git checkout <branch_name> | checkout -b <branch_name> origin/<branch_name>
\* | checkout -b <branch_name>, check=True
Sw_Checkout(t) ==
  /\ UNCHANGED notGit
  /\ pc[t] = "sw_checkout"
  /\ \E exit \in ExitCodes :
       /\ GitCheckout(op[t].branch_name, ~loc[t].branch_exists_locally, exit)
       /\ loc' = Upd(loc, t, [loc[t] EXCEPT !.checked_out = (exit = 0)])
       /\ IF exit # 0
            THEN SwitchExcept(t)
            ELSE IF loc[t].branch_exists_locally \/ loc[t].branch_exists_remotely
                   THEN pc' = Upd(pc, t, "sw_pull") /\ UNCHANGED result
                   ELSE SwitchSucceeded(t)
  /\ ran' = Upd(ran, t, ran[t] \cup {"checkout"})
  /\ UNCHANGED <<op, snap, popExit, popped>>

\* variant of Sw_Pull: the pull is not in a try of its own, a failing pull
\* reaches the handlers of the function
Sw_Pull_Unguarded(t) ==
  /\ UNCHANGED notGit
  /\ pc[t] = "sw_pull"
  /\ \E exit \in ExitCodes :
       IF exit = 0 THEN SwitchSucceeded(t) ELSE SwitchExcept(t)
  /\ ran' = Upd(ran, t, ran[t] \cup {"pull"})
  /\ UNCHANGED <<op, loc, snap, popExit, popped>>
  /\ UNCHANGED gitVars

\* git pull, check=True inside its own try: a failing pull is ignored
Sw_Pull(t) ==
  /\ UNCHANGED notGit
  /\ pc[t] = "sw_pull"
  /\ \E exit \in ExitCodes : SwitchSucceeded(t)
  /\ ran' = Upd(ran, t, ran[t] \cup {"pull"})
  /\ UNCHANGED <<op, loc, snap, popExit, popped>>
  /\ UNCHANGED gitVars

(***************************************************************************)
(* External commands: subprocess.run(cmd, timeout=...) in a request handler *)
(***************************************************************************)
\* timeout= of the sbatch call of submit_slurm_job
SbatchTimeout == 30
\* timeout= of the sbatch call of the /repeat_experiment route
RouteSbatchTimeout == 30
\* timeout= of the qq fit/report/update call of the /qibocal/<action> route
QqActionTimeout == 300
\* timeout= of the qq --help call of check_qibocal_availability
QqHelpTimeout == 5

\* the clock of the model advances in steps of this many seconds
TickSeconds == 5
\* the longest wait followed, in seconds
MaxWait == 320

Limited(name, command, seconds) ==
  [name |-> name, cmd |-> command, limited |-> TRUE, timeout |-> seconds]

\* a subprocess.run without timeout= waits until the child exits
Unlimited(name, command) ==
  [name |-> name, cmd |-> command, limited |-> FALSE, timeout |-> 0]

\* the subprocess.run calls of git in platforms.py: none passes timeout=
GitCallSites ==
  { Unlimited("clone_platforms_repository: git clone", "git"),
    Unlimited("update_platforms_repository: git pull origin main", "git"),
    Unlimited("list_repository_branches: git fetch --all", "git"),
    Unlimited("stash_changes: git stash push", "git"),
    Unlimited("apply_latest_stash: git stash pop", "git"),
    Unlimited("switch_repository_branch: git fetch --all", "git"),
    Unlimited("switch_repository_branch: git status", "git"),
    Unlimited("switch_repository_branch: git checkout", "git"),
    Unlimited("switch_repository_branch: git pull", "git"),
    Unlimited("push_changes: git push", "git") }

\* the subprocess.run calls of sbatch
SbatchCallSites ==
  { Limited("submit_slurm_job: sbatch", "sbatch", SbatchTimeout),
    Limited("repeat_experiment route: sbatch", "sbatch", RouteSbatchTimeout) }

\* the subprocess.run calls of qq
QqCallSites ==
  { Limited("qibocal_cli_action: qq <action>", "qq", QqActionTimeout),
    Limited("check_qibocal_availability: qq --help", "qq", QqHelpTimeout) }

CallSites == GitCallSites \cup SbatchCallSites \cup QqCallSites

NoSite == Unlimited("none", "none")

\* the handler is inside subprocess.run
Blocked == outcome = "running"

\* subprocess.run starts the child and waits for it
Invoke ==
  /\ ~Blocked
  /\ \E s \in CallSites, h \in BOOLEAN :
       /\ site' = s
       /\ hung' = h
  /\ elapsed' = 0
  /\ outcome' = "running"
  /\ UNCHANGED notCmd

\* the child exits by itself: subprocess.run returns its CompletedProcess
ChildExits ==
  /\ Blocked
  /\ ~hung
  /\ outcome' = "completed"
  /\ UNCHANGED <<site, elapsed, hung>>
  /\ UNCHANGED notCmd

\* the child keeps running
TimePasses ==
  /\ Blocked
  /\ site.limited => elapsed < site.timeout
  /\ elapsed < MaxWait
  /\ elapsed' = elapsed + TickSeconds
  /\ UNCHANGED <<site, hung, outcome>>
  /\ UNCHANGED notCmd

\* timeout= seconds have passed: subprocess.run kills the child and raises
\* TimeoutExpired, which the handler turns into its error answer
TimeoutExpires ==
  /\ Blocked
  /\ site.limited
  /\ elapsed >= site.timeout
  /\ outcome' = "TimeoutExpired"
  /\ UNCHANGED <<site, elapsed, hung>>
  /\ UNCHANGED notCmd

CmdInit ==
  /\ site = NoSite
  /\ elapsed = 0
  /\ hung = FALSE
  /\ outcome = "none"

CmdNext ==
  \/ Invoke
  \/ ChildExits
  \/ TimePasses
  \/ TimeoutExpires

(***************************************************************************)
(* Experiment submission: job_submission.py and the /repeat_experiment route *)
(***************************************************************************)
\* ticks of the clock in one second: generate_experiment_id and the route
\* read int(time.time()), the metadata records time.time() itself
TicksPerSecond == 2
\* the last tick at which a submission is made
MaxTime == 3

\* the runcards on disk, by content; each names its platform
Runcards == {"rcA", "rcB"}
Platform(rc) == IF rc = "rcA" THEN "qw11q" ELSE "qw5q"

\* what can stop a submission before sbatch is reached
Faults == {"none", "no_report", "no_runcard", "no_platform_field",
           "no_platforms_dir", "no_partition"}
\* how the sbatch process ends: exit 0, exit # 0, TimeoutExpired, or it
\* cannot be started (FileNotFoundError)
SbatchOutcomes == {"ok", "nonzero", "timeout", "oserror"}

\* sbatch is run only by a submission that nothing stopped before it
OutcomesAfter(f) == IF f = "none" THEN SbatchOutcomes ELSE {"none"}

Second(t) == t \div TicksPerSecond

NoPath == [kind |-> "none", second |-> 0, hash |-> <<>>]

\* hashlib.md5 over platform, str(timestamp) and the runcard's bytes, cut to
\* 8 hex digits; taken as collision free: equal digests only for equal inputs
ExperimentHash(platform, timestamp, content) == <<platform, timestamp, content>>

\* generate_experiment_id: f"exp_{timestamp_hex}_{experiment_hash}"
generate_experiment_id(content, platform, t) ==
  [kind |-> "exp", second |-> Second(t),
   hash |-> ExperimentHash(platform, Second(t), content)]

\* the route's f"qq_{timestamp_hex}", names the temp and the output directory
qq_name(t) == [kind |-> "qq", second |-> Second(t), hash |-> <<>>]

\* submit_slurm_job that runs sbatch again when the first run failed
submit_slurm_job_Retry(how) ==
  [success |-> how = "ok", invoked |-> IF how = "ok" THEN 1 ELSE 2]

\* submit_slurm_job: one subprocess.run(['sbatch', ...]); success iff exit 0
submit_slurm_job(how) == [success |-> how = "ok", invoked |-> 1]

NoLast == [fn |-> "none", fault |-> "none", sbatch |-> 0, how |-> "none",
           success |-> FALSE, message |-> FALSE]

\* the record of one submission: which function, its directory (NoPath when
\* it made none), whether it returned success, and time.time() at the call
Call(fn, dir, success) ==
  [fn |-> fn, dir |-> dir, success |-> success, at |-> now]

\* a submission that stops at fault f before sbatch: what it leaves behind
Stopped(fn, f, dir) ==
  /\ calls' = Append(calls, Call(fn, dir, FALSE))
  /\ last' = [NoLast EXCEPT !.fn = fn, !.fault = f, !.message = TRUE]
  /\ UNCHANGED <<expMeta, jobInfo, lastReport>>

\* a submission that writes last_report_path before it looks at sbatch's result
Submitted_WritesFirst(fn, id, how) ==
  LET r == submit_slurm_job(how) IN
  /\ calls' = Append(calls, Call(fn, id, r.success))
  /\ last' = [NoLast EXCEPT !.fn = fn, !.sbatch = r.invoked, !.how = how,
                            !.success = r.success, !.message = TRUE]
  /\ lastReport' = id
  /\ UNCHANGED <<expMeta, jobInfo>>

\* the submission reached sbatch: metadata and last_report_path are written
\* only when submit_slurm_job reports success
Submitted(fn, id, how) ==
  LET r == submit_slurm_job(how) IN
  /\ calls' = Append(calls, Call(fn, id, r.success))
  /\ last' = [NoLast EXCEPT !.fn = fn, !.sbatch = r.invoked, !.how = how,
                            !.success = r.success, !.message = TRUE]
  /\ IF r.success
       THEN /\ expMeta' = [i \in DOMAIN expMeta \cup {id} |->
                             IF i = id
                               THEN [experiment_id |-> id, submitted_at |-> now,
                                     type |-> fn]
                               ELSE expMeta[i]]
            /\ lastReport' = id
       ELSE UNCHANGED <<expMeta, lastReport>>
  /\ UNCHANGED jobInfo

\* submit_experiment that rejects missing arguments but not both at once
submit_experiment_AcceptsBoth(mode, rc, f, how) ==
  LET id == generate_experiment_id(rc, Platform(rc), now) IN
  /\ f \notin {"no_report"}
  /\ f = "no_runcard" => mode \in {"path", "both"}
  /\ IF mode = "neither"
       THEN Stopped("submit_experiment", "arguments", NoPath)
            /\ UNCHANGED expDirs
       ELSE IF f \in {"no_runcard", "no_platform_field"}
              THEN Stopped("submit_experiment", f, NoPath) /\ UNCHANGED expDirs
              ELSE /\ expDirs' = expDirs \cup {id}
                   /\ IF f # "none"
                        THEN Stopped("submit_experiment", f, id)
                        ELSE Submitted("submit_experiment", id, how)
  /\ UNCHANGED <<tempDirs, outDirs>>

\* submit_experiment(runcard_path, runcard_data, config, environment);
\* mode says which of runcard_path and runcard_data are given
submit_experiment(mode, rc, f, how) ==
  LET id == generate_experiment_id(rc, Platform(rc), now) IN
  /\ f \notin {"no_report"}
  /\ f = "no_runcard" => mode = "path"
  /\ IF mode \in {"neither", "both"}
       THEN Stopped("submit_experiment", "arguments", NoPath)
            /\ UNCHANGED expDirs
       ELSE IF f \in {"no_runcard", "no_platform_field"}
              \* prepare_runcard_from_path / create_temp_runcard_from_data raise
              THEN Stopped("submit_experiment", f, NoPath) /\ UNCHANGED expDirs
              ELSE /\ expDirs' = expDirs \cup {id}
                   /\ IF f # "none"
                        THEN Stopped("submit_experiment", f, id)
                        ELSE Submitted("submit_experiment", id, how)
  /\ UNCHANGED <<tempDirs, outDirs>>

\* repeat_experiment(report_path, config) of job_submission.py
repeat_experiment(rc, f, how) ==
  LET id == generate_experiment_id(rc, Platform(rc), now) IN
  /\ IF f \in {"no_report", "no_runcard", "no_platform_field"}
       THEN Stopped("repeat_experiment", f, NoPath) /\ UNCHANGED expDirs
       ELSE /\ expDirs' = expDirs \cup {id}
            /\ IF f # "none"
                 THEN Stopped("repeat_experiment", f, id)
                 ELSE Submitted("repeat_experiment", id, how)
  /\ UNCHANGED <<tempDirs, outDirs>>

\* POST /repeat_experiment: the route's own sbatch call, once, in its try
route_repeat_experiment(rc, f, how) ==
  LET name == qq_name(now)
      ok == f = "none" /\ how = "ok"
  IN
  /\ IF f \in {"no_report", "no_runcard"}
       THEN Stopped("route", f, NoPath) /\ UNCHANGED <<tempDirs, outDirs>>
       ELSE /\ tempDirs' = tempDirs \cup {name}
            /\ IF f # "none"
                 THEN Stopped("route", f, name) /\ UNCHANGED outDirs
                 ELSE /\ outDirs' = outDirs \cup {name}
                      /\ calls' = Append(calls, Call("route", name, ok))
                      /\ last' = [NoLast EXCEPT !.fn = "route", !.sbatch = 1,
                                                !.how = how, !.success = ok,
                                                !.message = TRUE]
                      /\ IF ok
                           THEN /\ jobInfo' = jobInfo \cup {name}
                                /\ lastReport' = name
                           ELSE UNCHANGED <<jobInfo, lastReport>>
                      /\ UNCHANGED expMeta
  /\ UNCHANGED expDirs

\* every submission takes its time: the clock has moved on when it returns
Elapse == now' = now + 1

SubmitExperiment ==
  /\ now < MaxTime
  /\ \E mode \in {"neither", "both", "path", "data"}, rc \in Runcards,
        f \in Faults :
       \E how \in OutcomesAfter(f) :
         /\ submit_experiment(mode, rc, f, how)
         /\ given' = IF mode \in {"neither", "both"} THEN mode ELSE "one"
  /\ Elapse
  /\ UNCHANGED listing
  /\ UNCHANGED notSub

RepeatExperiment ==
  /\ now < MaxTime
  /\ \E rc \in Runcards, f \in Faults :
       \E how \in OutcomesAfter(f) : repeat_experiment(rc, f, how)
  /\ given' = "report"
  /\ Elapse
  /\ UNCHANGED listing
  /\ UNCHANGED notSub

RouteRepeatExperiment ==
  /\ now < MaxTime
  /\ \E rc \in Runcards, f \in Faults :
       \E how \in OutcomesAfter(f) : route_repeat_experiment(rc, f, how)
  /\ given' = "report"
  /\ Elapse
  /\ UNCHANGED listing
  /\ UNCHANGED notSub

\* time passes with no submission
Tick ==
  /\ now < MaxTime
  /\ Elapse
  /\ UNCHANGED <<expDirs, expMeta, tempDirs, outDirs, jobInfo, lastReport,
                 calls, last, given, listing>>
  /\ UNCHANGED notSub

\* experiments.sort(key=submitted_at, reverse=True)
NewestFirst(seq) ==
  \A i \in 1..Len(seq) - 1 : seq[i].submitted_at >= seq[i + 1].submitted_at

\* list_user_experiments: the metadata of every directory under data_dir that
\* has an experiment_metadata.json, sorted by submitted_at, newest first
\* (os.listdir gives the order of equal keys)
ListUserExperiments ==
  /\ \E seq \in [1..Cardinality(DOMAIN expMeta) -> DOMAIN expMeta] :
       /\ \A i, j \in DOMAIN seq : i # j => seq[i] # seq[j]
       /\ LET metas == [i \in DOMAIN seq |-> expMeta[seq[i]]] IN
            /\ NewestFirst(metas)
            /\ listing' = metas
  /\ last' = [NoLast EXCEPT !.fn = "list_user_experiments"]
  /\ UNCHANGED <<now, expDirs, expMeta, tempDirs, outDirs, jobInfo, lastReport,
                 calls, given>>
  /\ UNCHANGED notSub

SubInit ==
  /\ now = 0
  /\ expDirs = {}
  /\ expMeta = <<>>
  /\ tempDirs = {}
  /\ outDirs = {}
  /\ jobInfo = {}
  /\ lastReport = NoPath
  /\ calls = <<>>
  /\ last = NoLast
  /\ given = "none"
  /\ listing = <<>>

SubmitNext ==
  \/ SubmitExperiment
  \/ RepeatExperiment
  \/ RouteRepeatExperiment
  \/ Tick
  \/ ListUserExperiments

(***************************************************************************)
(* The platforms directory: ensure_platforms_directory                     *)
(***************************************************************************)
\* the calls of ensure_platforms_directory that are followed
MaxEnsure == 3

\* root_path arguments; "None" stands for the default, the user's home
Roots == {"None", "srv"}
\* os.path.join(root_path, DEFAULT_PLATFORMS_DIR)
DefaultPath(root) ==
  IF root = "None" THEN "home/qibolab_platforms_qrc"
                   ELSE "srv/qibolab_platforms_qrc"
\* the default paths and one path only QIBOLAB_PLATFORMS can name
Paths == {DefaultPath(r) : r \in Roots} \cup {"opt/platforms"}
\* what a path can be on disk; "content" is a non-empty directory
Kinds == {"missing", "empty", "content", "file"}
\* git --version fails; git clone exits non-zero; the clone has no .git; or
\* the clone succeeds
GitClones == {"no_git", "clone_fails", "no_dotgit", "ok"}

NoEnsured == [n |-> 0, root |-> "None", path |-> "", returned |-> FALSE,
              cloned |-> FALSE]

\* the call returns path
Returns(root, path, cloned) ==
  /\ ensured' = [n |-> ensured.n + 1, root |-> root, path |-> path,
                 returned |-> TRUE, cloned |-> cloned]
  /\ settled' = IF settled = "" THEN path ELSE settled

\* the call raises RuntimeError
RaisesError(root, cloned) ==
  /\ ensured' = [n |-> ensured.n + 1, root |-> root, path |-> "",
                 returned |-> FALSE, cloned |-> cloned]
  /\ UNCHANGED settled

\* a directory with content that returns without exporting the variable
UseExisting_NoExport(root, path) ==
  /\ UNCHANGED <<environ, disk>>
  /\ Returns(root, path, FALSE)

\* the directory exists with content: export QIBOLAB_PLATFORMS and return it
UseExisting(root, path) ==
  /\ environ' = path
  /\ UNCHANGED disk
  /\ Returns(root, path, FALSE)

\* clone_platforms_repository(target_path), the directory made beforehand
clone_platforms_repository(root, path, git) ==
  IF git = "no_git"
    THEN /\ disk' = [disk EXCEPT ![path] = "empty"]
         /\ UNCHANGED environ
         /\ RaisesError(root, FALSE)
    ELSE IF git = "clone_fails"
      THEN /\ disk' = [disk EXCEPT ![path] = "empty"]
           /\ UNCHANGED environ
           /\ RaisesError(root, TRUE)
      ELSE IF git = "no_dotgit"
        THEN /\ disk' = [disk EXCEPT ![path] = "content"]
             /\ UNCHANGED environ
             /\ RaisesError(root, TRUE)
        ELSE /\ disk' = [disk EXCEPT ![path] = "content"]
             /\ environ' = path
             /\ Returns(root, path, TRUE)

ensure_platforms_directory(root, git) ==
  LET platforms_path == IF environ # "" THEN environ ELSE DefaultPath(root) IN
  IF environ # "" /\ disk[environ] # "missing"
    THEN /\ UNCHANGED <<environ, disk>>
         /\ Returns(root, environ, FALSE)
    ELSE IF disk[platforms_path] = "content"
      THEN UseExisting(root, platforms_path)
      ELSE IF disk[platforms_path] = "file"
        \* mkdir(exist_ok=True) on a file: FileExistsError
        THEN /\ UNCHANGED <<environ, disk>>
             /\ RaisesError(root, FALSE)
        ELSE clone_platforms_repository(root, platforms_path, git)

EnsurePlatformsDirectory ==
  /\ ensured.n < MaxEnsure
  /\ \E root \in Roots, git \in GitClones :
       ensure_platforms_directory(root, git)
  /\ UNCHANGED notPlat

\* somebody else removes, empties or fills a directory between two calls
DiskChanges ==
  /\ \E p \in Paths, k \in Kinds : disk' = [disk EXCEPT ![p] = k]
  /\ UNCHANGED <<environ, ensured, settled>>
  /\ UNCHANGED notPlat

\* a fresh machine: the variable is not set and none of the paths exists
PlatStart ==
  /\ environ = ""
  /\ disk = [p \in Paths |-> "missing"]
  /\ ensured = NoEnsured
  /\ settled = ""

\* the server starts with whatever environment and disk it is given
PlatInit ==
  /\ environ \in {""} \cup Paths
  /\ disk \in [Paths -> Kinds]
  /\ ensured = NoEnsured
  /\ settled = ""

PlatNext == EnsurePlatformsDirectory \/ DiskChanges

(***************************************************************************)
(* The file browser: PathView.put, PathView.post, PathView.delete          *)
(* The requests address the directory "data" below the served root.        *)
(***************************************************************************)
\* the files one POST uploads at most
MaxUpload == 2

\* what request.cookies.get('auth_cookie') gives; "<none>" stands for None
Cookies == {"<none>", "", "secret", "guess"}
\* file names a client sends in files[]
UploadNames == {"", "a.yml", "../b.yml", ".."}
\* werkzeug's secure_filename: path separators and leading dots are dropped
secure_filename(name) ==
  IF name = "../b.yml" THEN "b.yml" ELSE IF name = ".." THEN "" ELSE name
FileNames == {secure_filename(n) : n \in UploadNames} \ {""}

NoResponse == [method |-> "none", cookie |-> "<none>", sent |-> <<>>,
               status |-> 0, info |-> "none", msg |-> "none",
               raised |-> FALSE]

\* make_response(json of info, status); raised: the handler ended in an
\* exception instead, which Flask answers with 500
Respond(method, cookie, sent, status, info, msg) ==
  response' = [method |-> method, cookie |-> cookie, sent |-> sent,
               status |-> status, info |-> info, msg |-> msg,
               raised |-> status = 500]

\* the names of sent that the loop of post saves, in order, up to the first
\* one that secure_filename empties (file.save on the directory raises)
RECURSIVE Saved(_)
Saved(sent) ==
  IF sent = <<>> THEN {}
  ELSE IF Head(sent) = "" THEN Saved(Tail(sent))
  ELSE IF secure_filename(Head(sent)) = "" THEN {}
  ELSE {secure_filename(Head(sent))} \cup Saved(Tail(sent))

\* cli.py: the server is started with --auth-key or QD_KEY, before any request
Configure ==
  /\ response = NoResponse
  /\ key' \in {"", "secret"}
  /\ UNCHANGED <<dirs, files, response, partial>>
  /\ UNCHANGED notFb

\* PUT data/<name> with the file's content as body
Put ==
  /\ \E cookie \in Cookies, name \in FileNames, body \in {"old", "new"} :
       IF cookie = key
         THEN /\ dirs' = dirs \cup {"data"}
              /\ files' = [files EXCEPT ![name] = body]
              /\ Respond("PUT", cookie, <<name>>, 201, "success", "File Saved")
         ELSE /\ Respond("PUT", cookie, <<name>>, 401, "error",
                         "Authentication failed")
              /\ UNCHANGED <<dirs, files>>
  /\ UNCHANGED <<key, partial>>
  /\ UNCHANGED notFb

\* POST data with files[]; the authenticated branch never assigns res, so
\* its 'return res' raises UnboundLocalError
Post ==
  /\ \E cookie \in Cookies, body \in {"old", "new"}, k \in 0..MaxUpload :
       \E sent \in [1..k -> UploadNames] :
         IF cookie = key
           THEN /\ dirs' = dirs \cup {"data"}
                /\ files' = [n \in FileNames |->
                               IF n \in Saved(sent) THEN body ELSE files[n]]
                /\ Respond("POST", cookie, sent, 500, "none", "none")
           ELSE /\ Respond("POST", cookie, sent, 200, "error",
                           "Authentication failed")
                /\ UNCHANGED <<dirs, files>>
  /\ UNCHANGED <<key, partial>>
  /\ UNCHANGED notFb

\* DELETE data/<name>: removes the file, or else the directory if it is empty
\* (os.rmdir of a directory with files raises OSError)
Delete ==
  /\ \E cookie \in Cookies, name \in FileNames :
       IF cookie = key
         THEN IF files[name] # "absent"
                THEN /\ files' = [files EXCEPT ![name] = "absent"]
                     /\ dirs' = dirs \cup {"data"}
                     /\ Respond("DELETE", cookie, <<name>>, 204, "success",
                                "File Deleted")
                ELSE IF \A n \in FileNames : files[n] = "absent"
                  THEN /\ dirs' = dirs \ {"data"}
                       /\ UNCHANGED files
                       /\ Respond("DELETE", cookie, <<name>>, 204, "success",
                                  "File Deleted")
                  ELSE /\ dirs' = dirs \cup {"data"}
                       /\ UNCHANGED files
                       /\ Respond("DELETE", cookie, <<name>>, 204, "error",
                                  "OSError")
         ELSE /\ Respond("DELETE", cookie, <<name>>, 401, "error",
                         "Authentication failed")
              /\ UNCHANGED <<dirs, files>>
  /\ UNCHANGED <<key, partial>>
  /\ UNCHANGED notFb

(***************************************************************************)
(* Range requests: get_range and partial_response                          *)
(***************************************************************************)
\* the largest file size and the largest byte position a Range header names
MaxSize == 4
MaxByte == 5

\* Python's None where an integer is optional
None == -1

NoPartial == [size |-> 0, start |-> 0, end |-> None, length |-> 0,
              read |-> 0, status |-> 0, content_range |-> <<>>,
              raised |-> "none"]

\* get_range: the header 'bytes=<first>-<final>' with either number possibly
\* left out; without a first number the pattern does not match
get_range(first, final) ==
  IF first = None THEN <<0, None>> ELSE <<first, final>>

\* fd.seek(start); fd.read(length) on a file of size bytes: how many bytes
\* come back; -1 reads to the end of the file, at most what is left otherwise
fd_read(size, start, length) ==
  LET left == IF size > start THEN size - start ELSE 0 IN
  IF length = -1 \/ length > left THEN left ELSE length

partial_response(file_size, start, end0) ==
  LET end1 == IF end0 = None THEN file_size - 1 ELSE end0
      end == IF end1 < file_size - 1 THEN end1 ELSE file_size - 1
      length == end - start + 1
      bytes_data == fd_read(file_size, start, length)
  IN [size |-> file_size, start |-> start, end |-> end0, length |-> length,
      read |-> IF length < -1 THEN 0 ELSE bytes_data,
      status |-> IF length >= -1 /\ bytes_data = length THEN 206 ELSE 500,
      content_range |-> IF length >= -1 /\ bytes_data = length
                          THEN <<start, end, file_size>> ELSE <<>>,
      \* read() refuses a length below -1; the assert refuses a short read
      raised |-> IF length < -1 THEN "ValueError"
                 ELSE IF bytes_data # length THEN "AssertionError"
                 ELSE "none"]

\* GET of an existing file with a Range header
PartialResponse ==
  /\ \E size \in 0..MaxSize, first \in {None} \cup 0..MaxByte,
        final \in {None} \cup 0..MaxByte :
       partial' = partial_response(size, get_range(first, final)[1],
                                   get_range(first, final)[2])
  /\ UNCHANGED <<key, dirs, files, response>>
  /\ UNCHANGED notFb

\* PathView(root_path, key="") over an empty directory tree
FbInit ==
  /\ key = ""
  /\ dirs = {}
  /\ files = [n \in FileNames |-> "absent"]
  /\ response = NoResponse
  /\ partial = NoPartial

(***************************************************************************)
(* Package versions cached in a cookie: get_qibo_versions and its routes   *)
(***************************************************************************)
\* seconds between two readings of the clock, the last reading, and the
\* requests of the browser that are followed
ClockStep == 43200
MaxClock == 4
MaxVisits == 3

CACHE_DURATION == 24 * 60 * 60

NoCookie == [kind |-> "none", timestamp |-> 0, versions |-> "none"]
\* a cookie whose value json.loads cannot decode
BadCookie == [kind |-> "undecodable", timestamp |-> 0, versions |-> "none"]

NoAnswer == [n |-> 0, force_refresh |-> FALSE, from_cache |-> FALSE,
             versions |-> "none", cached_at |-> 0, at |-> 0]

\* get_qibo_versions with the test on the cookie's age made with <=
get_qibo_versions_Inclusive(force_refresh, request_cookie, current_time) ==
  IF /\ ~force_refresh
     /\ request_cookie.kind = "data"
     /\ current_time - request_cookie.timestamp <= CACHE_DURATION
    THEN [versions |-> request_cookie.versions, from_cache |-> TRUE,
          cached_at |-> request_cookie.timestamp, cookie_data |-> NoCookie]
    ELSE [versions |-> installed, from_cache |-> FALSE,
          cached_at |-> current_time,
          cookie_data |-> [kind |-> "data", timestamp |-> current_time,
                           versions |-> installed]]

\* get_qibo_versions(force_refresh, request) at time current_time
get_qibo_versions(force_refresh, request_cookie, current_time) ==
  IF /\ ~force_refresh
     /\ request_cookie.kind = "data"
     /\ current_time - request_cookie.timestamp < CACHE_DURATION
    THEN [versions |-> request_cookie.versions, from_cache |-> TRUE,
          cached_at |-> request_cookie.timestamp, cookie_data |-> NoCookie]
    ELSE [versions |-> installed, from_cache |-> FALSE,
          cached_at |-> current_time,
          cookie_data |-> [kind |-> "data", timestamp |-> current_time,
                           versions |-> installed]]

\* a page request (force_refresh=False) or the refresh endpoint; the route
\* sets the cookie when the versions are fresh
Visit ==
  /\ answer.n < MaxVisits
  /\ \E force_refresh \in BOOLEAN :
       LET version_data ==
             get_qibo_versions(force_refresh, qibo_versions, clock * ClockStep)
       IN /\ answer' = [n |-> answer.n + 1, force_refresh |-> force_refresh,
                        from_cache |-> version_data.from_cache,
                        versions |-> version_data.versions,
                        cached_at |-> version_data.cached_at,
                        at |-> clock * ClockStep]
          /\ qibo_versions' = IF version_data.from_cache
                                THEN qibo_versions
                                ELSE version_data.cookie_data
  /\ UNCHANGED <<clock, installed>>
  /\ UNCHANGED <<versions_json, calibration_json, detected>>
  /\ UNCHANGED notVer

ClockAdvances ==
  /\ clock < MaxClock
  /\ clock' = clock + 1
  /\ UNCHANGED <<qibo_versions, installed, answer>>
  /\ UNCHANGED <<versions_json, calibration_json, detected>>
  /\ UNCHANGED notVer

\* the browser drops the cookie, or sends one that is not JSON
CookieChanges ==
  /\ qibo_versions' \in {NoCookie, BadCookie}
  /\ UNCHANGED <<clock, installed, answer>>
  /\ UNCHANGED <<versions_json, calibration_json, detected>>
  /\ UNCHANGED notVer

\* a package is upgraded or downgraded on the server
Reinstall ==
  /\ installed' \in {"qibo 0.2.1", "qibo 0.2.2"} \ {installed}
  /\ UNCHANGED <<clock, qibo_versions, answer>>
  /\ UNCHANGED <<versions_json, calibration_json, detected>>
  /\ UNCHANGED notVer

(***************************************************************************)
(* A platform's qibolab version: detect_and_save_qibolab_version           *)
(***************************************************************************)
\* the calls of detect_and_save_qibolab_version that are followed
MaxDetect == 3

\* versions.json is absent, cannot be decoded, or holds an object whose
\* qibolab_version is "none" (no such key) or a version
NoFile == [kind |-> "absent", qibolab_version |-> "none"]
VersionsFiles ==
  {NoFile, [kind |-> "undecodable", qibolab_version |-> "none"]} \cup
  {[kind |-> "object", qibolab_version |-> v] :
     v \in {"none", "0.1.0", "0.2.0", "0.1.45"}}

\* detect_and_save_qibolab_version(qpu_path): what it returns, whether it
\* wrote versions.json ("failed": open(..., 'w') raised IOError, which is
\* only logged), and the file afterwards
detect_and_save_qibolab_version(file, calibration, writable) ==
  LET detected_version == IF calibration THEN "0.2.0" ELSE "0.1.0" IN
  IF file.qibolab_version \notin {"none", "0.1.0", "0.2.0"}
    THEN [returned |-> file.qibolab_version, wrote |-> "no", file |-> file]
    ELSE IF file.qibolab_version = detected_version
      THEN [returned |-> detected_version, wrote |-> "no", file |-> file]
      ELSE IF writable
        THEN [returned |-> detected_version, wrote |-> "yes",
              file |-> [kind |-> "object",
                        qibolab_version |-> detected_version]]
        ELSE [returned |-> detected_version, wrote |-> "failed",
              file |-> file]

Detect ==
  /\ detected.n < MaxDetect
  /\ \E writable \in BOOLEAN :
       LET r == detect_and_save_qibolab_version(versions_json,
                                                calibration_json, writable)
       IN /\ detected' = [n |-> detected.n + 1, returned |-> r.returned,
                          wrote |-> r.wrote]
          /\ versions_json' = r.file
  /\ UNCHANGED <<clock, qibo_versions, installed, answer, calibration_json>>
  /\ UNCHANGED notVer

\* the platform directory changes under the server: an edit or a checkout
PlatformChanges ==
  /\ versions_json' \in VersionsFiles
  /\ calibration_json' \in BOOLEAN
  /\ UNCHANGED <<clock, qibo_versions, installed, answer, detected>>
  /\ UNCHANGED notVer

VerInit ==
  /\ clock = 0
  /\ qibo_versions = NoCookie
  /\ installed = "qibo 0.2.1"
  /\ answer = NoAnswer
  /\ versions_json = NoFile
  /\ calibration_json = FALSE
  /\ detected = [n |-> 0, returned |-> "none", wrote |-> "no"]

(***************************************************************************)
(* The repository served by the threaded server                            *)
(***************************************************************************)
(***************************************************************************)
(* commit_changes and push_changes (the platforms directory is a clone:    *)
(* the '.git' test at the top of both passes)                              *)
(***************************************************************************)
MaxAhead == 2
MaxOps == 4

\* the dictionary a call returns, the git commands it ran, and the
\* operation it came after when that one succeeded
Vcs(fn, success, error, cmds) ==
  [n |-> vcs.n + 1, fn |-> fn, success |-> success, error |-> error,
   ran |-> cmds, after |-> IF vcs.success THEN vcs.fn ELSE "none"]

\* commit_changes(platforms_path, commit_message): git status, git add .,
\* git commit -m (exit is its exit status: a hook or a missing identity
\* makes it fail)
commit_changes ==
  /\ UNCHANGED notRepo
  /\ vcs.n < MaxOps
  /\ IF ~unsaved
       THEN /\ vcs' = Vcs("commit", FALSE, "No changes to commit", {})
            /\ UNCHANGED <<unsaved, ahead>>
       ELSE \E exit \in ExitCodes :
              IF exit = 0
                THEN /\ ahead < MaxAhead
                     /\ vcs' = Vcs("commit", TRUE, "none", {"add", "commit"})
                     /\ unsaved' = FALSE
                     /\ ahead' = ahead + 1
                ELSE /\ vcs' = Vcs("commit", FALSE, "Failed to commit changes",
                                   {"add", "commit"})
                     /\ UNCHANGED <<unsaved, ahead>>
  /\ UNCHANGED upstream

\* the push_changes that does not count the commits ahead
push_changes_Always ==
  /\ UNCHANGED notRepo
  /\ vcs.n < MaxOps
  /\ \E exit \in ExitCodes :
       IF exit = 0
         THEN /\ vcs' = Vcs("push", TRUE, "none", {"push"})
              /\ ahead' = 0
              /\ upstream' = TRUE
         ELSE /\ vcs' = Vcs("push", FALSE, "Failed to push changes",
                            {"push"})
              /\ UNCHANGED <<ahead, upstream>>
  /\ UNCHANGED unsaved

\* push_changes(platforms_path): git rev-list --count origin/<branch>..HEAD
\* (its exit status is non-zero when origin/<branch> does not exist, and
\* then the count is not looked at), git push origin <branch> (exit is its
\* exit status; a push that succeeds moves origin/<branch> to HEAD)
push_changes ==
  /\ UNCHANGED notRepo
  /\ vcs.n < MaxOps
  /\ IF upstream /\ ahead = 0
       THEN /\ vcs' = Vcs("push", FALSE, "No commits to push", {})
            /\ UNCHANGED <<ahead, upstream>>
       ELSE \E exit \in ExitCodes :
              IF exit = 0
                THEN /\ vcs' = Vcs("push", TRUE, "none", {"push"})
                     /\ ahead' = 0
                     /\ upstream' = TRUE
                ELSE /\ vcs' = Vcs("push", FALSE, "Failed to push changes",
                                   {"push"})
                     /\ UNCHANGED <<ahead, upstream>>
  /\ UNCHANGED unsaved

\* the user edits a platform file
EditFiles ==
  /\ UNCHANGED notRepo
  /\ ~unsaved
  /\ unsaved' = TRUE
  /\ UNCHANGED <<ahead, upstream, vcs>>

\* git checkout -b <name>: a new local branch that origin does not have,
\* or back to a branch of origin with nothing to push
CheckoutBranch ==
  /\ UNCHANGED notRepo
  /\ vcs.fn # "checkout"
  /\ \E known \in BOOLEAN :
       /\ upstream' = known
       /\ ahead' = IF known THEN 0 ELSE ahead
  /\ vcs' = [Vcs("checkout", TRUE, "none", {}) EXCEPT !.n = vcs.n]
  /\ UNCHANGED unsaved

(***************************************************************************)
(* infer_topology_from_connectivity                                        *)
(***************************************************************************)
MaxConnections == 3

\* infer_topology_from_connectivity(connectivity_data); the graph is a
\* rustworkx PyGraph with one node per qubit and one edge per entry of two or
\* more elements (parallel edges and self loops are kept, a self loop adds 2
\* to the degree of its node)
infer_topology_from_connectivity(connectivity_data, HAS_RUSTWORKX) ==
  LET valid == {i \in DOMAIN connectivity_data :
                  Len(connectivity_data[i]) >= 2}
      qubits == {connectivity_data[i][1] : i \in valid}
                  \cup {connectivity_data[i][2] : i \in valid}
      num_nodes == Cardinality(qubits)
      num_edges == Len(connectivity_data)
      degree(q) ==
        Cardinality({i \in valid : connectivity_data[i][1] = q})
          + Cardinality({i \in valid : connectivity_data[i][2] = q})
      count(d) == Cardinality({q \in qubits : degree(q) = d})
      max_degree == CHOOSE d \in {degree(q) : q \in qubits} :
                      \A q \in qubits : degree(q) <= d
      min_degree == CHOOSE d \in {degree(q) : q \in qubits} :
                      \A q \in qubits : degree(q) >= d
      RECURSIVE sum(_)
      sum(S) == IF S = {} THEN 0
                ELSE LET q == CHOOSE x \in S : TRUE
                     IN  degree(q) + sum(S \ {q})
      \* the nodes of S joined to a node of F by an edge between nodes of S
      RECURSIVE reach(_, _)
      reach(S, F) ==
        LET more == {q \in S \ F : \E i \in valid, f \in F :
                       {connectivity_data[i][1], connectivity_data[i][2]}
                         = {q, f}}
        IN  IF more = {} THEN F ELSE reach(S, F \cup more)
      connected_components(S) == {reach(S, {q}) : q \in S}
      is_connected == Cardinality(connected_components(qubits)) = 1
      articulation_points ==
        {q \in qubits : Cardinality(connected_components(qubits \ {q}))
                          > Cardinality(connected_components(qubits))}
      is_bow_tie ==
        /\ num_nodes >= 5
        /\ Cardinality(articulation_points) = 1
        /\ LET components ==
                 connected_components(qubits \ articulation_points)
           IN  /\ Cardinality(components) = 2
               /\ \A a, b \in components :
                     Cardinality(a) - Cardinality(b) <= 1
  IN
  IF connectivity_data = <<>> \/ ~HAS_RUSTWORKX THEN "unknown"
  ELSE IF num_nodes = 0 THEN "isolated"
  ELSE IF num_nodes = 1 THEN "single"
  ELSE IF /\ max_degree <= 2 /\ num_edges = num_nodes - 1 /\ is_connected
          /\ count(1) = 2 /\ count(2) = num_nodes - 2
    THEN "chain"
  ELSE IF /\ max_degree = 2 /\ min_degree = 2 /\ num_edges = num_nodes
          /\ is_connected
    THEN "ring"
  ELSE IF /\ max_degree = num_nodes - 1 /\ count(1) = num_nodes - 1
          /\ count(num_nodes - 1) = 1
    THEN "star"
  ELSE IF /\ 2 * num_nodes <= sum(qubits) /\ sum(qubits) <= 4 * num_nodes
          /\ max_degree <= 4 /\ is_connected
          /\ count(2) + count(3) + count(4) = num_nodes /\ count(2) >= 4
    THEN "lattice"
  ELSE IF is_bow_tie THEN "bow_tie"
  ELSE IF /\ min_degree >= 2 /\ max_degree <= 3 /\ is_connected
          /\ 10 * count(3) >= 8 * num_nodes
    THEN "honeycomb"
  ELSE "custom"

\* the call for the connectivity list the QPU configuration holds
InferTopology ==
  /\ UNCHANGED <<notQpu, ips, script, conn>>
  /\ topology' =
       [topology EXCEPT !.returned =
          infer_topology_from_connectivity(topology.connectivity_data,
                                           topology.HAS_RUSTWORKX)]

\* the configuration gets one more entry: no, one or two of the qubits 0, 1
\* and 2 (rustworkx is installed or not when the server starts)
ConnectivityChanges ==
  /\ UNCHANGED <<notQpu, ips, script, conn>>
  /\ Len(topology.connectivity_data) < MaxConnections
  /\ \E k \in 0..2, has \in BOOLEAN :
       \E connection \in [1..k -> {0, 1, 2}] :
         /\ topology.connectivity_data # <<>> => has = topology.HAS_RUSTWORKX
         /\ topology' =
              [connectivity_data |->
                 Append(topology.connectivity_data, connection),
               HAS_RUSTWORKX |-> has, returned |-> "none"]

(***************************************************************************)
(* get_instruments_ip                                                      *)
(***************************************************************************)
MaxInstruments == 3

\* get_instruments_ip(platform), given platform.instruments in order; an
\* instrument is the attribute that holds its address ("none": it has
\* neither 'address' nor 'ADDRESS') and the value of that attribute.  The
\* value returned is a Python list or a Python str.
get_instruments_ip(instruments) ==
  LET exposes(instrument) == instrument.attribute \in {"address", "ADDRESS"}
      with == SelectSeq(instruments, exposes)
      found == [k \in 1..Len(with) |-> with[k].value]
  IN  IF found # <<>>
        THEN [type |-> "list", list |-> found, str |-> ""]
        ELSE [type |-> "str", list |-> <<>>, str |-> "N/A"]

\* a call for the platform
GetInstrumentsIp ==
  /\ UNCHANGED <<notQpu, topology, script, conn>>
  /\ ips' = [ips EXCEPT !.n = 1,
                        !.returned = get_instruments_ip(ips.instruments)]

\* the platform is defined with one more instrument
InstrumentAdded ==
  /\ UNCHANGED <<notQpu, topology, script, conn>>
  /\ Len(ips.instruments) < MaxInstruments
  /\ \E a \in {"address", "ADDRESS", "none"}, v \in {"10.0.0.1", "10.0.0.2"} :
       /\ a = "none" => v = "10.0.0.1"
       /\ ips' = [instruments |->
                    Append(ips.instruments,
                           [attribute |-> a,
                            value |-> IF a = "none" THEN "" ELSE v]),
                  n |-> 0,
                  returned |-> [type |-> "str", list |-> <<>>, str |-> ""]]

(***************************************************************************)
(* get_connection_status, one request thread per status request            *)
(***************************************************************************)
\* ping_electronics.sh just after open(..., 'w'), and before any request
EmptyFile == [qpu_name |-> "", electronics_ip |-> get_instruments_ip(<<>>)]

\* get_connection_status(qpu_name, queue_name) starts: check_qpu_queue_status
\* gives 'offline', 'running' or 'online'; only 'online' goes on to the ping
CheckQueueStatus(t) ==
  /\ UNCHANGED <<notQpu, topology, ips, script>>
  /\ conn[t].pc = "idle"
  /\ \E qpu_name \in {"qpu_a", "qpu_b"},
        basic_status \in {"offline", "running", "online"} :
       conn' = Upd(conn, t,
                   [pc |-> IF basic_status = "online" THEN "open" ELSE "idle",
                    qpu_name |-> qpu_name,
                    wrote |-> EmptyFile, executed |-> EmptyFile,
                    status |-> IF basic_status = "online"
                                 THEN "none" ELSE basic_status])

\* electronics_ip = get_instruments_ip(qpu_name), job_script = f"""...""",
\* open('ping_electronics.sh', 'w'): the file is truncated
OpenScript(t) ==
  /\ UNCHANGED <<notQpu, topology, ips>>
  /\ conn[t].pc = "open"
  /\ script' = EmptyFile
  /\ conn' = Upd(conn, t,
       [conn[t] EXCEPT
          !.pc = "write",
          !.wrote =
            [qpu_name |-> conn[t].qpu_name,
             electronics_ip |->
               get_instruments_ip(
                 IF conn[t].qpu_name = "qpu_a"
                   THEN <<[attribute |-> "address", value |-> "10.0.0.1"]>>
                   ELSE <<[attribute |-> "ADDRESS", value |-> "10.0.0.2"],
                          [attribute |-> "none", value |-> ""]>>)]])

\* script_file.write(job_script) and the end of the with block
WriteScript(t) ==
  /\ UNCHANGED <<notQpu, topology, ips>>
  /\ conn[t].pc = "write"
  /\ script' = conn[t].wrote
  /\ conn' = Upd(conn, t, [conn[t] EXCEPT !.pc = "run"])

\* subprocess.run(["bash", "ping_electronics.sh"], timeout=5): bash runs
\* what the file holds now; 'online' on exit status 0, 'connection error'
\* on another status or on the timeout (an empty script exits 0)
RunScript(t) ==
  /\ UNCHANGED <<notQpu, topology, ips, script>>
  /\ conn[t].pc = "run"
  /\ \E returncode \in {0, 1} :
       /\ script = EmptyFile => returncode = 0
       /\ conn' = Upd(conn, t,
            [conn[t] EXCEPT
               !.pc = "idle",
               !.executed = script,
               !.status = IF returncode = 0
                            THEN "online" ELSE "connection error"])

GitInit ==
  /\ branch = "main"
  /\ localBranches = {"main"}
  /\ remoteBranches = {"main"}
  /\ tree = {}
  /\ conflicted = FALSE
  /\ stash = <<>>
  /\ pc = [t \in Threads |-> "idle"]
  /\ op = [t \in Threads |-> NoOp]
  /\ loc = [t \in Threads |-> NoLoc]
  /\ result = [t \in Threads |-> NoResult]
  /\ ran = [t \in Threads |-> {}]
  /\ snap = [t \in Threads |-> NoSnap]
  /\ popExit = [t \in Threads |-> -1]
  /\ popped = [t \in Threads |-> NoEntry]
  /\ unsaved = FALSE
  /\ ahead = 0
  /\ upstream = TRUE
  /\ vcs = [n |-> 0, fn |-> "none", success |-> FALSE, error |-> "none",
            ran |-> {}, after |-> "none"]
  /\ topology = [connectivity_data |-> <<>>, HAS_RUSTWORKX |-> TRUE,
                 returned |-> "none"]
  /\ ips = [instruments |-> <<>>, n |-> 0,
            returned |-> [type |-> "str", list |-> <<>>, str |-> ""]]
  /\ script = EmptyFile
  /\ conn = [t \in Threads |->
              [pc |-> "idle", qpu_name |-> "", wrote |-> EmptyFile,
               executed |-> EmptyFile, status |-> "none"]]

Init == GitInit /\ CmdInit /\ SubInit /\ PlatStart /\ FbInit /\ VerInit

Step(t) ==
  \/ CallSwitch(t)
  \/ CallStash(t)
  \/ CallApply(t)
  \/ Sw_Fetch(t)
  \/ Sw_Status(t)
  \/ St_Status(t)
  \/ St_Push(t)
  \/ St_List(t)
  \/ Sw_CheckLocal(t)
  \/ Sw_CheckRemote(t)
  \/ Sw_Checkout(t)
  \/ Sw_Pull(t)
  \/ Ap_List(t)
  \/ Ap_Pop(t)
  \/ Finish(t)

\* Requests served one after another: one thread takes every call, and the
\* user touches the work tree between calls, not during one.
AllIdle == \A t \in Threads : pc[t] = "idle"

IdleUserEdit == AllIdle /\ UserEdit

IdleUserResolve == AllIdle /\ UserResolve

SeqThreads == {1}

Next ==
  \/ IdleUserEdit
  \/ IdleUserResolve
  \/ \E t \in SeqThreads : Step(t)

Spec == Init /\ [][Next]_vars

(***************************************************************************)
(* Two POST /api/platforms/switch requests, each on its own thread         *)
(***************************************************************************)
\* api_platforms_switch: branch, create and handle_changes come from the
\* request body; auto_apply_stash is never passed and keeps its default
RouteSwitch(t) ==
  \E b \in OriginBranches, h \in {"fail", "stash"} :
    Begin(t, [fn |-> "switch", branch_name |-> b, create_if_not_exists |-> FALSE,
              handle_changes |-> h, auto_apply_stash |-> TRUE, pop |-> TRUE],
          "sw_fetch")

RaceStep(t) ==
  \/ RouteSwitch(t)
  \/ Sw_Fetch(t)
  \/ Sw_Status(t)
  \/ St_Status(t)
  \/ St_Push(t)
  \/ St_List(t)
  \/ Sw_CheckLocal(t)
  \/ Sw_CheckRemote(t)
  \/ Sw_Checkout(t)
  \/ Sw_Pull(t)
  \/ Ap_List(t)
  \/ Ap_Pop(t)

RaceNext ==
  \/ UserEdit
  \/ \E t \in Threads : RaceStep(t)

RaceSpec == Init /\ [][RaceNext]_vars

(***************************************************************************)
(* The other parts, each on its own                                        *)
(***************************************************************************)
CmdSpec == Init /\ [][CmdNext]_vars

\* time passes while a child runs, and an expired timeout is acted on
FairCmdSpec == CmdSpec /\ WF_vars(TimePasses) /\ WF_vars(TimeoutExpires)

SubmitSpec == Init /\ [][SubmitNext]_vars

\* the server starts with any environment and any disk
InitAnywhere ==
  GitInit /\ CmdInit /\ SubInit /\ PlatInit /\ FbInit /\ VerInit

PlatSpec == InitAnywhere /\ [][PlatNext]_vars

FbSpec == Init /\ [][Configure \/ Put \/ Post \/ Delete]_vars

RangeSpec == Init /\ [][PartialResponse]_vars

VerSpec ==
  Init /\ [][Visit \/ ClockAdvances \/ CookieChanges \/ Reinstall]_vars

DetectSpec == Init /\ [][Detect \/ PlatformChanges]_vars

TopologySpec == Init /\ [][InferTopology \/ ConnectivityChanges]_vars

IpSpec == Init /\ [][GetInstrumentsIp \/ InstrumentAdded]_vars

StatusSpec ==
  Init /\ [][\E t \in Threads : \/ CheckQueueStatus(t) \/ OpenScript(t)
                                 \/ WriteScript(t) \/ RunScript(t)]_vars

CommitSpec ==
  Init /\ [][commit_changes \/ push_changes \/ EditFiles \/ CheckoutBranch]_vars

(***************************************************************************)
(* Claims about the platforms repository                                   *)
(***************************************************************************)
Switching(t) == op[t].fn = "switch"
SwitchReturned(t) == Switching(t) /\ pc[t] = "returned"
\* the work tree had uncommitted changes when the call started
SnapDirty(t) == snap[t].tree # {} \/ snap[t].conflicted

C4_AlwaysReturnsResult ==
  \A t \in Threads :
    Switching(t) =>
      /\ pc[t] # "raised"
      /\ pc[t] = "returned" => result[t].bound /\ "success" \in result[t].keys

\* C5: a returned result carries an 'error' entry only if success is False.
C5_ErrorOnlyOnFailure ==
  \A t \in Threads :
    SwitchReturned(t) => ("error" \in result[t].keys => ~result[t].success)

\* C6: a call made with uncommitted changes in the work tree and
\* handle_changes 'fail' or 'commit' returns success=False with
\* has_changes=True, has run no stash, checkout, pull or stash-pop, and
\* leaves the branch, the work tree and the stash list as they were.
C6_FailReturnsUntouched ==
  \A t \in Threads :
    (Switching(t) /\ pc[t] \in {"returned", "raised"} /\ SnapDirty(t)
       /\ op[t].handle_changes \in {"fail", "commit"})
      => /\ pc[t] = "returned"
         /\ ~result[t].success
         /\ "has_changes" \in result[t].keys /\ result[t].has_changes
         /\ ran[t] = {}
         /\ branch = snap[t].branch
         /\ tree = snap[t].tree
         /\ conflicted = snap[t].conflicted
         /\ stash = snap[t].stash

\* What holds of C6: the same for every such call that has returned (a call
\* whose git fetch failed does not return, see C4), and the repository is
\* untouched however the call ended.
C6_FailLeavesRepository ==
  \A t \in Threads :
    (Switching(t) /\ pc[t] \in {"returned", "raised"} /\ SnapDirty(t)
       /\ op[t].handle_changes \in {"fail", "commit"})
      => /\ pc[t] = "returned" =>
              /\ ~result[t].success
              /\ "has_changes" \in result[t].keys /\ result[t].has_changes
         /\ ran[t] = {}
         /\ branch = snap[t].branch
         /\ tree = snap[t].tree
         /\ conflicted = snap[t].conflicted
         /\ stash = snap[t].stash

C6_Witness ==
  \E t \in Threads :
    /\ SwitchReturned(t) /\ SnapDirty(t)
    /\ op[t].handle_changes = "commit"
    /\ op[t].branch_name \in localBranches
    /\ snap[t].stash # <<>>

\* the stash list as apply_latest_stash finds it in a call that runs alone
StashAtApply(t) ==
  IF result[t].changes_handled = "stashed"
    THEN <<[msg |-> StashMessage(op[t]), content |-> snap[t].tree]>> \o snap[t].stash
    ELSE snap[t].stash

\* C7: after a successful checkout with auto_apply_stash=True, a non-empty
\* stash list makes the call run git stash pop on stash@{0}, whoever created
\* that entry, and report stash_restored=True and stash_applied=stash@{0},
\* also when the pop exits with conflicts; a pop that exits 0 removed exactly
\* the top entry.
C7_PopsLatestStash ==
  \A t \in Threads :
    (SwitchReturned(t) /\ op[t].auto_apply_stash /\ loc[t].checked_out
       /\ StashAtApply(t) # <<>>)
      => /\ "pop" \in ran[t]
         /\ result[t].success
         /\ result[t].stash_restored
         /\ result[t].stash_applied = StashTop
         /\ popExit[t] = 0 => /\ popped[t] = Head(StashAtApply(t))
                              /\ stash = Tail(StashAtApply(t))
         /\ popExit[t] # 0 => stash = StashAtApply(t)

\* an entry of an earlier stash_changes call is popped by a switch that
\* stashed nothing itself
C7_Witness ==
  \E t \in Threads :
    /\ SwitchReturned(t) /\ op[t].auto_apply_stash /\ loc[t].checked_out
    /\ result[t].changes_handled = "None"
    /\ popExit[t] = 0
    /\ popped[t].msg = "WIP: Stashed"
    /\ result[t].stash_restored

\* C8: apply_latest_stash on an empty stash list returns success=False and
\* runs no git stash pop/apply; on a non-empty list it returns success=True
\* with conflicts=True exactly when the pop/apply command exited non-zero.
C8_ApplyLatestStash ==
  \A t \in Threads :
    (op[t].fn = "apply" /\ pc[t] = "returned")
      => IF snap[t].stash = <<>>
           THEN /\ ~result[t].success
                /\ "error" \in result[t].keys
                /\ "pop" \notin ran[t]
                /\ popExit[t] = -1
           ELSE /\ result[t].success
                /\ "pop" \in ran[t]
                /\ "conflicts" \in result[t].keys
                /\ result[t].conflicts <=> (popExit[t] # 0)
                /\ result[t].stash_applied = StashTop

C8_Witness ==
  \E t \in Threads :
    /\ op[t].fn = "apply" /\ pc[t] = "returned"
    /\ snap[t].stash # <<>>
    /\ ~op[t].pop
    /\ popExit[t] # 0
    /\ result[t].conflicts

(***************************************************************************)
(* Claims about external commands                                          *)
(***************************************************************************)
\* C2: every invocation of git, sbatch and qq is made with a hardcoded finite
\* timeout, so a handler is never inside a subprocess.run that has no time
\* limit (stated in full; the git call sites refute it)
C2_EveryCallHasTimeout ==
  Blocked => site.limited /\ site.timeout > 0

\* supporting C2: a handler blocked on sbatch or qq does return, by the child's
\* exit or by TimeoutExpired, even when the child never exits
C2_SbatchAndQqReturn ==
  \A s \in SbatchCallSites \cup QqCallSites :
    (Blocked /\ site = s) ~> ~Blocked

(***************************************************************************)
(* Claims about experiment submission                                      *)
(***************************************************************************)
\* a step that is one whole submission call or request
SubmissionStep == Len(calls') = Len(calls) + 1

\* C3: within one submit_experiment call, repeat_experiment call or
\* /repeat_experiment request sbatch is invoked at most once, and when it exits
\* non-zero, times out or cannot be started the call returns success=False
\* with a message, writes no experiment_metadata.json or job_info.json and
\* leaves last_report_path unchanged
C3_NeverRetried ==
  [][SubmissionStep =>
       /\ last'.sbatch <= 1
       /\ (last'.sbatch >= 1 /\ last'.how # "ok") =>
            /\ ~last'.success
            /\ ~calls'[Len(calls')].success
            /\ last'.message
            /\ expMeta' = expMeta
            /\ jobInfo' = jobInfo
            /\ lastReport' = lastReport]_vars

\* an sbatch that timed out after an earlier submission had succeeded
C3_Witness ==
  /\ last.sbatch = 1
  /\ last.how = "timeout"
  /\ ~last.success
  /\ lastReport # NoPath
  /\ Len(calls) >= 2

\* the submissions that made a directory
MadeDirectory == {i \in DOMAIN calls : calls[i].dir # NoPath}

\* C9: no two distinct submissions get the same experiment/output directory,
\* also when they submit the same runcard and platform within one second
C9_OwnDirectory ==
  \A i, j \in MadeDirectory : i # j => calls[i].dir # calls[j].dir

\* the calls of submit_experiment and repeat_experiment, by outcome
Succeeded == {i \in DOMAIN calls : calls[i].fn # "route" /\ calls[i].success}
LeftBehind == {i \in MadeDirectory : calls[i].fn # "route" /\ ~calls[i].success}
ListedIds == {listing[k].experiment_id : k \in DOMAIN listing}

ListsExactlySucceeded ==
  /\ Len(listing) = Cardinality(Succeeded)
  /\ ListedIds = {calls[i].dir : i \in Succeeded}
  /\ NewestFirst(listing)
  /\ \A i \in LeftBehind : calls[i].dir \notin ListedIds

\* C10: list_user_experiments returns exactly the experiments whose sbatch
\* submission succeeded, one entry each, newest first, and never a directory
\* that a failed submission left behind
C10_ListsSucceeded ==
  last.fn = "list_user_experiments" => ListsExactlySucceeded

\* supporting C10: the listing is as claimed whenever no two submissions share
\* a directory
C10_UnlessShared ==
  (last.fn = "list_user_experiments" /\ C9_OwnDirectory) => ListsExactlySucceeded

\* the calls so far that returned success=True
Successes == {i \in DOMAIN calls : calls[i].success}

\* C11: after any sequence of submit_experiment and repeat_experiment calls
\* last_report_path holds the output directory of the most recent call that
\* returned success=True (nothing before the first one); a call that fails at
\* any step therefore leaves it as it was
C11_LastReportIsLatestSuccess ==
  (\A i \in DOMAIN calls : calls[i].fn # "route") =>
    lastReport = IF Successes = {}
                   THEN NoPath
                   ELSE calls[CHOOSE i \in Successes :
                                \A j \in Successes : j <= i].dir

\* two successful submissions into different directories, then one that made
\* its directory and failed
C11_Witness ==
  /\ Len(calls) = 3
  /\ \A i \in DOMAIN calls : calls[i].fn # "route"
  /\ calls[1].success /\ calls[2].success /\ ~calls[3].success
  /\ calls[1].dir # calls[2].dir
  /\ calls[3].dir \notin {NoPath, calls[2].dir}
  /\ lastReport = calls[2].dir

\* C12: submit_experiment called with neither or with both of runcard_path and
\* runcard_data returns success=False, creates no directory and no file, and
\* does not run sbatch
C12_BadArgumentsNoEffect ==
  [][(SubmissionStep /\ given' \in {"neither", "both"}) =>
       /\ ~calls'[Len(calls')].success
       /\ calls'[Len(calls')].dir = NoPath
       /\ last'.sbatch = 0
       /\ UNCHANGED <<expDirs, expMeta, tempDirs, outDirs, jobInfo,
                      lastReport>>]_vars

\* a call with both arguments, made after a submission that succeeded
C12_Witness ==
  /\ given = "both"
  /\ last.fn = "submit_experiment" /\ last.fault = "arguments"
  /\ ~last.success
  /\ expDirs # {} /\ lastReport # NoPath

(***************************************************************************)
(* Claims about the platforms directory                                    *)
(***************************************************************************)
\* a step that is one whole ensure_platforms_directory call
EnsureStep == ensured'.n = ensured.n + 1

\* C13: ensure_platforms_directory runs git clone only when the resolved
\* directory is missing or empty; when QIBOLAB_PLATFORMS names an existing
\* path, or the default directory has content, it returns that path without
\* cloning; on every successful return QIBOLAB_PLATFORMS equals the returned
\* path, and every later call returns that same path whatever its root_path
C13_ClonesOnlyWhenNeeded ==
  [][EnsureStep =>
       LET e == ensured'
           default == DefaultPath(e.root)
           resolved == IF environ # "" THEN environ ELSE default
       IN
       /\ e.cloned => disk[resolved] \in {"missing", "empty"}
       /\ (environ # "" /\ disk[environ] # "missing") =>
            e.returned /\ e.path = environ /\ ~e.cloned
       /\ (environ = "" /\ disk[default] = "content") =>
            e.returned /\ e.path = default /\ ~e.cloned
       /\ e.returned => environ' = e.path
       /\ (e.returned /\ settled # "") => e.path = settled]_vars

\* a later call, given a root_path whose default is another directory,
\* returned the path the first successful call had returned
C13_Witness ==
  /\ ensured.n >= 2
  /\ ensured.returned
  /\ ensured.path = settled
  /\ settled # DefaultPath(ensured.root)
  /\ environ = settled
  /\ disk[settled] = "content"

(***************************************************************************)
(* Claims about the file browser                                           *)
(***************************************************************************)
\* C14: a PUT, POST or DELETE whose auth_cookie is missing or differs from the
\* configured key changes nothing in the served tree and is answered with
\* status 401 and an 'Authentication failed' body
C14_MutationNeedsKey ==
  [][(response'.method \in {"PUT", "POST", "DELETE"}
        /\ response'.cookie # key) =>
       /\ UNCHANGED <<dirs, files>>
       /\ response'.status = 401
       /\ response'.info = "error"
       /\ response'.msg = "Authentication failed"]_vars

\* supporting C14: such a request changes nothing and gets the
\* 'Authentication failed' body, with status 401 from PUT and DELETE
C14_NoKeyNoChange ==
  [][(response'.method \in {"PUT", "POST", "DELETE"}
        /\ response'.cookie # key) =>
       /\ UNCHANGED <<dirs, files>>
       /\ response'.method # "POST" => response'.status = 401
       /\ response'.msg = "Authentication failed"]_vars

\* C15: an authenticated POST saves every uploaded file with a non-empty name
\* into the target directory and then returns a response; the handler does
\* not end in an error
C15_UploadAnswers ==
  (response.method = "POST" /\ response.cookie = key) =>
    /\ ~response.raised
    /\ \A i \in DOMAIN response.sent :
         response.sent[i] # "" =>
           files[secure_filename(response.sent[i])] # "absent"

\* min(end, S-1) - start + 1 with end defaulting to S-1
ClaimedLength(p) ==
  LET upto == IF p.end = None \/ p.end > p.size - 1 THEN p.size - 1 ELSE p.end
  IN upto - p.start + 1

\* C16: for every Range request on a file of size S partial_response reads
\* exactly min(end, S-1) - start + 1 bytes, so its assertion holds, and it
\* answers 206 with Content-Range 'bytes start-end/S', for all non-negative
\* start and end, also when start >= S or end < start
C16_RangeAnswered ==
  partial # NoPartial =>
    /\ partial.raised = "none"
    /\ partial.read = ClaimedLength(partial)
    /\ partial.status = 206
    /\ partial.content_range =
         <<partial.start, ClaimedLength(partial) + partial.start - 1,
           partial.size>>

\* supporting C16: the claim holds for the ranges that start inside the file,
\* or right at its end, and do not end before they start
C16_WithinFile ==
  (partial # NoPartial /\ ClaimedLength(partial) >= 0) =>
    /\ partial.raised = "none"
    /\ partial.read = ClaimedLength(partial)
    /\ partial.status = 206

DetectStep == detected'.n = detected.n + 1
AutoDetected == IF calibration_json THEN "0.2.0" ELSE "0.1.0"

\* C18: if versions.json already contains a qibolab_version the call returns
\* that value and does not rewrite the file; otherwise it returns '0.2.0' when
\* calibration.json exists and '0.1.0' when not, and saves that value (unless
\* the file cannot be written)
C18_KeepsStoredVersion ==
  [][DetectStep =>
       IF versions_json.qibolab_version # "none"
         THEN /\ detected'.returned = versions_json.qibolab_version
              /\ detected'.wrote = "no"
              /\ versions_json' = versions_json
         ELSE /\ detected'.returned = AutoDetected
              /\ detected'.wrote # "failed" =>
                   versions_json'.qibolab_version = AutoDetected]_vars

\* what the code does keep: a stored qibolab_version other than '0.1.0' and
\* '0.2.0' is returned and the file is not rewritten; in every other case the call
\* returns '0.2.0' when calibration.json exists and '0.1.0' when not, and
\* versions.json holds that value afterwards (unless the file cannot be
\* written), rewritten only when it did not hold it already
C18_KeepsExplicitVersion ==
  [][DetectStep =>
       IF versions_json.qibolab_version \notin {"none", "0.1.0", "0.2.0"}
         THEN /\ detected'.returned = versions_json.qibolab_version
              /\ detected'.wrote = "no"
              /\ versions_json' = versions_json
         ELSE /\ detected'.returned = AutoDetected
              /\ detected'.wrote # "failed" =>
                   versions_json'.qibolab_version = AutoDetected
              /\ detected'.wrote = "yes" =>
                   versions_json.qibolab_version # AutoDetected
              /\ detected'.wrote # "yes" => versions_json' = versions_json]_vars

\* a stored '0.1.0' was replaced by '0.2.0' because calibration.json exists
C18_Witness ==
  /\ detected.n >= 2
  /\ detected.wrote = "yes"
  /\ detected.returned = "0.2.0"
  /\ calibration_json
  /\ versions_json = [kind |-> "object", qibolab_version |-> "0.2.0"]

\* the stash_changes call of thread t has returned
StashReturned(t) == pc[t] = "returned" /\ op[t].fn = "stash"

\* C19: stash_changes on a clean working tree returns success=False and
\* creates no stash entry; a successful call on a tree with changes adds
\* exactly one entry holding the changes, leaves the tree clean and returns
\* that entry's name, stash@{0}, as stash_name
C19_StashReturnsEntryName ==
  \A t \in SeqThreads :
    StashReturned(t) =>
      /\ snap[t].tree = {} /\ ~snap[t].conflicted =>
           /\ ~result[t].success
           /\ "error" \in result[t].keys
           /\ ran[t] = {}
           /\ stash = snap[t].stash
      /\ result[t].success =>
           /\ snap[t].tree # {}
           /\ stash = <<[msg |-> StashMessage(op[t]),
                         content |-> snap[t].tree]>> \o snap[t].stash
           /\ tree = {} /\ ~conflicted
           /\ result[t].stash_name = StashTop

\* the claim without the returned name: the entry is created exactly when the
\* call succeeds, and stash_name is present in the answer
C19_StashesOnce ==
  \A t \in SeqThreads :
    StashReturned(t) =>
      /\ snap[t].tree = {} /\ ~snap[t].conflicted =>
           /\ ~result[t].success
           /\ "error" \in result[t].keys
           /\ ran[t] = {}
           /\ stash = snap[t].stash
      /\ result[t].success =>
           /\ snap[t].tree # {}
           /\ stash = <<[msg |-> StashMessage(op[t]),
                         content |-> snap[t].tree]>> \o snap[t].stash
           /\ tree = {} /\ ~conflicted
           /\ "stash_name" \in result[t].keys
      /\ ~result[t].success => stash = snap[t].stash /\ tree = snap[t].tree

\* the step is a call of fn
VcsStep(fn) == vcs'.n = vcs.n + 1 /\ vcs'.fn = fn

\* C20: commit_changes on a clean working tree returns success=False
\* ('No changes to commit') and creates no commit; push_changes with the
\* branch 0 commits ahead of origin/<branch> returns success=False ('No
\* commits to push') without running git push; so a push_changes right after
\* a successful push never pushes again
C20_NothingToDo ==
  [][/\ VcsStep("commit") /\ ~unsaved =>
          /\ ~vcs'.success
          /\ vcs'.error = "No changes to commit"
          /\ vcs'.ran = {}
          /\ ahead' = ahead
     /\ VcsStep("push") /\ upstream /\ ahead = 0 =>
          /\ ~vcs'.success
          /\ vcs'.error = "No commits to push"
          /\ vcs'.ran = {}
     /\ VcsStep("push") /\ vcs.fn = "push" /\ vcs.success =>
          /\ ~vcs'.success
          /\ vcs'.error = "No commits to push"
          /\ "push" \notin vcs'.ran]_vars

\* a second push_changes right after one that pushed a commit of a branch
\* origin did not have: it was refused, nothing ran
C20_Witness ==
  /\ vcs.n >= 3
  /\ vcs.fn = "push"
  /\ vcs.after = "push"
  /\ vcs.error = "No commits to push"
  /\ vcs.ran = {}
  /\ upstream /\ ahead = 0
  /\ unsaved

\* C23: whenever switch_repository_branch returns success=False, the branch
\* checked out is the one that was checked out before the call
C23_FailedSwitchKeepsBranch ==
  \A t \in SeqThreads :
    SwitchReturned(t) /\ ~result[t].success => branch = snap[t].branch

\* a switch to another branch that exists failed in git checkout
C23_Witness ==
  \E t \in SeqThreads :
    /\ SwitchReturned(t) /\ ~result[t].success
    /\ "checkout" \in ran[t]
    /\ op[t].branch_name # snap[t].branch
    /\ op[t].branch_name \in localBranches

\* C24: a switch that stashed the local changes and then failed (branch
\* found nowhere, or git checkout exited non-zero) leaves the changes as the
\* top entry of the stash list and the work tree clean on the original
\* branch, and returns success=False with changes_handled='stashed' and
\* stash_created set; nothing was restored
C24_FailedSwitchKeepsStash ==
  \A t \in SeqThreads :
    (SwitchReturned(t) /\ ~result[t].success /\ "stash" \in ran[t]
       /\ stash # snap[t].stash)
      => /\ stash = <<[msg |-> StashMessage(op[t]),
                       content |-> snap[t].tree]>> \o snap[t].stash
         /\ snap[t].tree # {}
         /\ tree = {} /\ ~conflicted
         /\ branch = snap[t].branch
         /\ result[t].changes_handled = "stashed"
         /\ result[t].stash_created # "None"
         /\ result[t].stash_applied = "None" /\ ~result[t].stash_restored
         /\ "error" \in result[t].keys

\* the stash was made and the branch was then found neither locally nor
\* remotely
C24_Witness ==
  \E t \in SeqThreads :
    /\ SwitchReturned(t) /\ ~result[t].success
    /\ result[t].changes_handled = "stashed"
    /\ "checkout" \notin ran[t]
    /\ op[t].branch_name = "ghost"
    /\ stash # <<>> /\ tree = {}

\* the call returned for these connectivity entries, rustworkx installed
Inferred(data) ==
  /\ topology.returned # "none"
  /\ topology.HAS_RUSTWORKX
  /\ topology.connectivity_data = data

\* C21: for every connectivity list, also an empty one, one whose entries
\* have fewer than two elements and a single self-connected qubit,
\* infer_topology_from_connectivity returns one of the documented labels
\* 'chain', 'lattice', 'bow_tie', 'honeycomb', 'star', 'ring' or 'custom'
C21_DocumentedLabel ==
  topology.returned \in {"none", "chain", "lattice", "bow_tie", "honeycomb",
                         "star", "ring", "custom"}

\* what the call returns instead in the three cases the claim names, and
\* that every list with two or more qubits gets a documented label
C21_LabelsReturned ==
  /\ Inferred(<<>>) => topology.returned = "unknown"
  /\ Inferred(<<<<0>>, <<>>>>) => topology.returned = "isolated"
  /\ Inferred(<<<<0, 0>>>>) => topology.returned = "single"
  /\ Inferred(<<<<0, 1>>, <<1, 2>>>>) => topology.returned = "chain"
  /\ Inferred(<<<<0, 1>>, <<1, 2>>, <<2, 0>>>>) => topology.returned = "ring"
  /\ Inferred(<<<<0, 1>>, <<0, 1>>, <<0, 1>>>>) =>
       topology.returned = "honeycomb"
  /\ topology.returned \notin {"none", "chain", "lattice", "bow_tie",
                               "honeycomb", "star", "ring", "custom"} =>
       \/ ~topology.HAS_RUSTWORKX
       \/ topology.connectivity_data = <<>>
       \/ Cardinality({topology.connectivity_data[i][j] :
                         i \in {k \in DOMAIN topology.connectivity_data :
                                  Len(topology.connectivity_data[k]) = 2},
                         j \in 1..2}) <= 1

\* C22: get_instruments_ip always returns a non-empty list, never a value
\* of another type: the addresses, in instrument order, of the instruments
\* that expose 'address' or 'ADDRESS'
C22_ReturnsAddressList ==
  ips.n = 1 =>
    /\ ips.returned.type = "list"
    /\ ips.returned.list # <<>>
    /\ \E at \in [1..Len(ips.returned.list) -> 1..Len(ips.instruments)] :
         /\ \A j, k \in DOMAIN at : j < k => at[j] < at[k]
         /\ \A k \in DOMAIN at :
              ips.returned.list[k] = ips.instruments[at[k]].value
         /\ \A i \in 1..Len(ips.instruments) :
              ips.instruments[i].attribute # "none" <=>
                \E k \in DOMAIN at : at[k] = i

\* what the call does return: the list of the claim when some instrument
\* exposes an address, and the string 'N/A' when none does
C22_ListOrNotAvailable ==
  ips.n = 1 =>
    IF \E i \in 1..Len(ips.instruments) :
         ips.instruments[i].attribute # "none"
      THEN /\ ips.returned.type = "list"
           /\ ips.returned.list # <<>>
           /\ \E at \in [1..Len(ips.returned.list)
                           -> 1..Len(ips.instruments)] :
                /\ \A j, k \in DOMAIN at : j < k => at[j] < at[k]
                /\ \A k \in DOMAIN at :
                     ips.returned.list[k] = ips.instruments[at[k]].value
                /\ \A i \in 1..Len(ips.instruments) :
                     ips.instruments[i].attribute # "none" <=>
                       \E k \in DOMAIN at : at[k] = i
      ELSE ips.returned = [type |-> "str", list |-> <<>>, str |-> "N/A"]

\* C25: also when two status requests for different QPUs run concurrently,
\* the ping script a request executes is the one that request wrote, so the
\* status it computes depends only on its own QPU
C25_ExecutesOwnScript ==
  \A t \in Threads :
    conn[t].status \in {"online", "connection error"} =>
      /\ conn[t].wrote.qpu_name = conn[t].qpu_name
      /\ conn[t].executed = conn[t].wrote

\* what holds: a request executes its own script as long as no other thread
\* has served a status request
C25_AloneExecutesOwnScript ==
  \A t \in Threads :
    (/\ conn[t].status \in {"online", "connection error"}
     /\ \A u \in Threads \ {t} : conn[u].qpu_name = "")
      => /\ conn[t].wrote.qpu_name = conn[t].qpu_name
         /\ conn[t].executed = conn[t].wrote

====
